---- MODULE Spec2Model ----
(***************************************************************************)
(* Week / session scheduling and booking-conflict engine of the summer     *)
(* camp planner (src/schedule.py, src/family.py, src/camps.py,             *)
(* src/ai_parser.py).                                                      *)
(*                                                                         *)
(* Dates are day numbers; day 0 is a Monday, so weekday(d) = d % 7 with    *)
(* 0 = Monday .. 6 = Sunday, as datetime.weekday() counts them.            *)
(*                                                                         *)
(* Entity keys and booking group ids are uuid4 strings in the code.  A     *)
(* uuid4 never equals a key that is still known to anybody, and keys are   *)
(* only ever compared for equality, so a booking handler here takes the    *)
(* smallest keys of the pool 1..MaxUuid that nothing in the state refers   *)
(* to.  Week keys come from a counter: a recalculated Week never gets the  *)
(* key of a Week that existed before.  Python's None is the value None.    *)
(***************************************************************************)
EXTENDS Integers, Sequences, FiniteSets, TLC

\* ------------------------------------------------------------------------
\* Bounds of the model
\* ------------------------------------------------------------------------
\* size of the pool of uuid4 values of the booking handlers (group ids + keys)
MaxUuid == 5
\* number of Week keys ever handed out (initial generation + recalculations)
MaxWeekUuid == 6
\* number of Trips stored at one time
MaxTrips == 1
None == -99

KidIds == {1, 2}
SessionIds == {1, 2, 3}
TripIds == 1..MaxTrips
BookingIdPool == 1..MaxUuid

\* state values a booking form can submit (request.form is not validated
\* on the creation path); valid_states is the list change-state accepts
valid_states == {"idea", "preferred", "booked"}

\* (start_date, end_date) pairs a trip form can submit
TripDateInputs == {<<18, 21>>, <<16, 14>>}

\* the signed-in user (get_current_user()['email']) and another account
\* whose entities live in the same datastore
User == "parent@home"
OtherUser == "other@home"
Users == {User, OtherUser}

\* parents: the Parent entities; calendar: the ids of the events that exist
\* in the external calendar
\* camps: the Camp entities; extracted: the 'sessions' array of the data the
\* last parse of a camp web page returned
VARIABLES kids, trips, weeks, sessions, bookings, nextWeekUuid, procs,
          parents, calendar, camps, extracted

vars == <<kids, trips, weeks, sessions, bookings, nextWeekUuid, procs,
          parents, calendar, camps, extracted>>

\* ------------------------------------------------------------------------
\* Helpers
\* ------------------------------------------------------------------------
Min2(a, b) == IF a < b THEN a ELSE b
Max2(a, b) == IF a > b THEN a ELSE b

\* datetime.weekday(): 0 = Monday .. 6 = Sunday
weekday(d) == d % 7

\* Python list slicing seq[start:stop] for start >= 0 (stop may be negative)
PySlice(seq, start, stop) ==
    LET n == Len(seq)
        hi == IF stop < 0 THEN Max2(0, n + stop) ELSE Min2(stop, n)
    IN  IF hi <= start THEN <<>> ELSE SubSeq(seq, start + 1, hi)

SeqToSet(seq) == {seq[i] : i \in 1..Len(seq)}

\* query_by_user(client, 'Week', user, order_by='week_number')
RECURSIVE SortByWeekNumber(_)
SortByWeekNumber(W) ==
    IF W = {} THEN <<>>
    ELSE LET first == CHOOSE w \in W :
                 \A v \in W : \/ w.week_number < v.week_number
                              \/ (w.week_number = v.week_number /\ w.id <= v.id)
         IN  <<first>> \o SortByWeekNumber(W \ {first})

\* a fetch by key that skips the ownership comparison
get_entity_for_user_AnyOwner(S, id, user_email) == {e \in S : e.id = id}

\* get_entity_for_user: the entity under the key if its user_email is the
\* caller's, as a set ({} is None)
get_entity_for_user(S, id, user_email) ==
    {e \in S : e.id = id /\ e.user_email = user_email}

\* get_entity_for_user for the signed-in user: HasEntity is "the result is
\* not None", GetEntity the entity it returns then
HasEntity(S, id) == get_entity_for_user(S, id, User) # {}
GetEntity(S, id) == CHOOSE e \in get_entity_for_user(S, id, User) : TRUE

\* query_by_user without further filters: the user's entities of one kind
query_by_user(S) == {e \in S : e.user_email = User}

\* inclusive interval overlap used for trips and weeks
TripOverlapsWeek(trip, week) ==
    trip.start_date <= week.end_date /\ trip.end_date >= week.start_date

\* ------------------------------------------------------------------------
\* Week generation (calculate_weeks_for_user)
\* ------------------------------------------------------------------------
earliest_last_day(K) ==
    LET D == {k.last_day_of_school : k \in K} \ {None}
    IN  IF D = {} THEN None ELSE CHOOSE d \in D : \A e \in D : d <= e

\* a bound taken from the kid who goes back to school first
latest_first_day_Earliest(K) ==
    LET D == {k.first_day_of_school : k \in K} \ {None}
    IN  IF D = {} THEN None ELSE CHOOSE d \in D : \A e \in D : d <= e

latest_first_day(K) ==
    LET D == {k.first_day_of_school : k \in K} \ {None}
    IN  IF D = {} THEN None ELSE CHOOSE d \in D : \A e \in D : d >= e

\* a first Monday that may be the last day of school itself
first_monday_SameDay(last_day) ==
    last_day + ((7 - weekday(last_day)) % 7)

first_monday(last_day) ==
    LET days_until_monday == (7 - weekday(last_day)) % 7
    IN  last_day + (IF days_until_monday = 0 THEN 7 ELSE days_until_monday)

\* the while loop creating one Week per Monday; keys firstId, firstId+1, ..
RECURSIVE GenerateWeeks(_, _, _, _)
GenerateWeeks(current_monday, week_number, latest, id) ==
    IF current_monday < latest /\ current_monday + 4 < latest
    THEN <<[id |-> id, user_email |-> User, week_number |-> week_number,
            start_date |-> current_monday, end_date |-> current_monday + 4,
            is_blocked |-> FALSE]>>
         \o GenerateWeeks(current_monday + 7, week_number + 1, latest, id + 1)
    ELSE <<>>

\* the "Apply trip blocking" loop of calculate_weeks_for_user
ApplyTripBlocking(W, T) ==
    {IF \E t \in T : TripOverlapsWeek(t, w)
     THEN [w EXCEPT !.is_blocked = TRUE] ELSE w : w \in W}

\* a recalculation that generates without deleting the existing Weeks
CalculateWeeks_KeepsOld(K, T, oldWeeks, firstId) ==
    IF K = {} \/ earliest_last_day(K) = None \/ latest_first_day(K) = None
    THEN oldWeeks
    ELSE oldWeeks \cup ApplyTripBlocking(
            SeqToSet(GenerateWeeks(first_monday(earliest_last_day(K)), 1,
                                   latest_first_day(K), firstId)), T)

\* the Weeks stored after calculate_weeks_for_user; oldWeeks when it returns
\* early without touching the datastore
CalculateWeeks(K, T, oldWeeks, firstId) ==
    IF K = {} \/ earliest_last_day(K) = None \/ latest_first_day(K) = None
    THEN oldWeeks
    ELSE ApplyTripBlocking(
            SeqToSet(GenerateWeeks(first_monday(earliest_last_day(K)), 1,
                                   latest_first_day(K), firstId)), T)

\* a re-blocking that sets the flag and never clears it
UpdateWeekBlocking_NeverClears(W, T) ==
    {[w EXCEPT !.is_blocked = @ \/ (\E t \in T : TripOverlapsWeek(t, w))] : w \in W}

\* a re-blocking that deletes the Weeks a Trip overlaps instead of flagging
\* them
UpdateWeekBlocking_DropsBlocked(W, T) ==
    {w \in W : ~(\E t \in T : TripOverlapsWeek(t, w))}

\* a re-blocking that writes every Week it looks at
update_week_blocking_writes_Always(W, T) == W

\* the Weeks update_week_blocking writes with update_entity: those whose
\* stored flag differs from the recomputed one
update_week_blocking_writes(W, T) ==
    {w \in W : w.is_blocked # (\E t \in T : TripOverlapsWeek(t, w))}

\* update_week_blocking: recompute is_blocked in place
UpdateWeekBlocking(W, T) ==
    {[w EXCEPT !.is_blocked = (\E t \in T : TripOverlapsWeek(t, w))] : w \in W}

\* ------------------------------------------------------------------------
\* Initial state: two kids with school dates and their generated weeks
\* (Mondays 7, 14 and 21), no trips, no bookings, and three sessions as
\* session_new stores them: a one-week session, a two-week session with
\* dates, and one whose duration_weeks field was submitted as -1
\* (session_new stores int(request.form.get('duration_weeks', 1)) unchecked)
\* ------------------------------------------------------------------------
InitKids ==
    {[id |-> 1, user_email |-> User,
      last_day_of_school |-> 2, first_day_of_school |-> 23],
     [id |-> 2, user_email |-> User,
      last_day_of_school |-> 4, first_day_of_school |-> 27]}

\* the Camp the sessions belong to (camp_new)
InitCamps == {[id |-> 1, user_email |-> User]}

InitSessions ==
    {[id |-> 1, user_email |-> User, camp_id |-> 1, duration_weeks |-> 1,
      session_start_date |-> None, session_end_date |-> None],
     [id |-> 2, user_email |-> User, camp_id |-> 1, duration_weeks |-> 2,
      session_start_date |-> 7, session_end_date |-> 11],
     [id |-> 3, user_email |-> User, camp_id |-> 1, duration_weeks |-> -1,
      session_start_date |-> None, session_end_date |-> None]}

\* a request in flight (interleaved requests): its position, the uuid4 values
\* it drew and the entities it is about to put
Idle == [pc |-> "idle", uuids |-> {}, writes |-> {}]

Init ==
    /\ kids = InitKids
    /\ trips = {}
    /\ weeks = CalculateWeeks(InitKids, {}, {}, 1)
    /\ nextWeekUuid = Cardinality(weeks) + 1
    /\ sessions = InitSessions
    /\ bookings = {}
    /\ procs = [p \in {1, 2} |-> Idle]
    /\ parents = {}
    /\ calendar = {}
    /\ camps = InitCamps
    /\ extracted = <<>>

\* ------------------------------------------------------------------------
\* Booking allocation (shared shape of booking_new and api_quick_booking)
\* ------------------------------------------------------------------------
week_list == SortByWeekNumber(query_by_user(weeks))

\* the enumerate() loop looking for the chosen week: 0-based index or None
start_week_idx(wl, week_id) ==
    IF \E i \in 1..Len(wl) : wl[i].id = week_id
    THEN (CHOOSE i \in 1..Len(wl) :
             wl[i].id = week_id /\ \A j \in 1..(i - 1) : wl[j].id # week_id) - 1
    ELSE None

\* week_list[start_week_idx:start_week_idx + duration_weeks]
weeks_needed(wl, idx, duration_weeks) == PySlice(wl, idx, idx + duration_weeks)

existing_bookings_Booked(kid_id, week_id) ==
    {b \in query_by_user(bookings) :
        b.kid_id = kid_id /\ b.week_id = week_id /\ b.state = "booked"}

\* query_by_user(.., 'Booking', filters=[kid_id, week_id])
existing_bookings(kid_id, week_id) ==
    {b \in query_by_user(bookings) : b.kid_id = kid_id /\ b.week_id = week_id}

\* a capacity check that lets a run through that is one week short
InsufficientWeeks_OffByOne(wl, idx, duration_weeks) ==
    idx + duration_weeks > Len(wl) + 1

\* "Check if we have enough consecutive weeks"
InsufficientWeeks(wl, idx, duration_weeks) == idx + duration_weeks > Len(wl)

\* a blocked check that looks at the starting week only
AnyBlocked_StartOnly(needed) == needed # <<>> /\ needed[1].is_blocked

\* "Check if any of the needed weeks are blocked by trips"
AnyBlocked(needed) == \E w \in SeqToSet(needed) : w.is_blocked

\* "week is completely outside the session date range (with buffer)"
buffer_days == 7

OutsideSessionRange_NoBuffer(s, w) ==
    \/ w.end_date < s.session_start_date
    \/ w.start_date > s.session_end_date

OutsideSessionRange(s, w) ==
    \/ w.end_date < s.session_start_date - buffer_days
    \/ w.start_date > s.session_end_date + buffer_days

\* collision checks that look at the starting week only
CollisionWeeks_StartOnly(kid_id, needed) ==
    {w \in SeqToSet(PySlice(needed, 0, 1)) : \E b \in bookings :
        b.kid_id = kid_id /\ b.week_id = w.id}

BookedConflictWeeks_StartOnly(kid_id, needed) ==
    {w \in SeqToSet(PySlice(needed, 0, 1)) : \E b \in bookings :
        b.kid_id = kid_id /\ b.week_id = w.id /\ b.state = "booked"}

\* weeks of the needed run that hold any booking / a booked booking of the kid
CollisionWeeks(kid_id, needed) ==
    {w \in SeqToSet(needed) : existing_bookings(kid_id, w.id) # {}}

BookedConflictWeeks(kid_id, needed) ==
    {w \in SeqToSet(needed) :
        \E b \in existing_bookings(kid_id, w.id) : b.state = "booked"}

\* uuid4 values still referred to: keys and group ids of stored bookings and
\* of the entities a request in flight holds
UsedUuids ==
    {b.id : b \in bookings} \cup ({b.booking_group_id : b \in bookings} \ {None})
    \cup UNION {procs[p].uuids : p \in {q \in DOMAIN procs : procs[q].pc # "idle"}}

RECURSIVE Ascending(_)
Ascending(S) ==
    IF S = {} THEN <<>>
    ELSE LET m == CHOOSE x \in S : \A y \in S : x <= y
         IN  <<m>> \o Ascending(S \ {m})

\* the uuid4 draws of one request, in the order the handler makes them
FreshUuids == Ascending(BookingIdPool \ UsedUuids)

\* the create_entity loop: one Booking per needed week, week_of_session
\* counted from 1; uuids[1] is the group id, uuids[i + 1] the i-th key
NewGroup(kid_id, session_id, needed, state, pref, uuids, total) ==
    {[id |-> uuids[i + 1],
      user_email |-> User,
      kid_id |-> kid_id,
      session_id |-> session_id,
      week_id |-> needed[i].id,
      state |-> state,
      preference_order |-> pref,
      calendar_event_id |-> None,
      booking_group_id |-> uuids[1],
      week_of_session |-> i,
      total_weeks |-> total] : i \in 1..Len(needed)}

\* booking_new up to its writes: the response (outcome, the week numbers it
\* names) and the weeks to occupy, the validations in the order of the code
booking_new(kid_id, session_id, week_id, state) ==
    LET session_entity == GetEntity(sessions, session_id)
    IN  IF \/ ~HasEntity(kids, kid_id)
           \/ ~HasEntity(sessions, session_id)
           \/ ~HasEntity(weeks, week_id)
        THEN [outcome |-> "not_found", needed |-> <<>>, cw |-> {}]
        ELSE
        LET wl == week_list
            idx == start_week_idx(wl, week_id)
            duration_weeks == session_entity.duration_weeks
        IN  IF idx = None
            THEN [outcome |-> "week_not_found", needed |-> <<>>, cw |-> {}]
            ELSE IF InsufficientWeeks(wl, idx, duration_weeks)
            THEN [outcome |-> "capacity", needed |-> <<>>, cw |-> {}]
            ELSE
            LET needed == weeks_needed(wl, idx, duration_weeks)
                collisions == CollisionWeeks(kid_id, needed)
                booked == BookedConflictWeeks(kid_id, needed)
            IN  IF /\ session_entity.session_start_date # None
                   /\ session_entity.session_end_date # None
                   /\ \E w \in SeqToSet(needed) : OutsideSessionRange(session_entity, w)
                THEN [outcome |-> "date_range", needed |-> needed, cw |-> {}]
                ELSE IF AnyBlocked(needed)
                THEN [outcome |-> "blocked", needed |-> needed, cw |-> {}]
                ELSE IF state = "booked" /\ collisions # {}
                THEN [outcome |-> "conflict", needed |-> needed,
                      cw |-> {w.week_number : w \in collisions}]
                ELSE IF booked # {}
                THEN [outcome |-> "hard_conflict", needed |-> needed,
                      cw |-> {w.week_number : w \in booked}]
                ELSE [outcome |-> IF collisions # {} THEN "contested" ELSE "created",
                      needed |-> needed,
                      cw |-> {w.week_number : w \in collisions}]

Accepted(outcome) == outcome \in {"created", "contested"}

\* the uuid4 pool of the model still holds the draws of a request that
\* creates one Booking per week of needed
UuidsLeft(needed) == Len(FreshUuids) >= 1 + Len(needed)

\* the Bookings booking_new writes: none unless the validations passed
booking_new_created(kid_id, session_id, week_id, state, pref) ==
    LET r == booking_new(kid_id, session_id, week_id, state)
    IN  IF Accepted(r.outcome)
        THEN NewGroup(kid_id, session_id, r.needed, state, pref, FreshUuids,
                      GetEntity(sessions, session_id).duration_weeks)
        ELSE {}

\* POST /bookings/new
BookingNew(kid_id, session_id, week_id, state, pref) ==
    /\ UuidsLeft(booking_new(kid_id, session_id, week_id, state).needed)
    /\ bookings' = bookings \cup
           booking_new_created(kid_id, session_id, week_id, state, pref)
    /\ UNCHANGED <<camps, extracted, kids, trips, weeks, sessions, nextWeekUuid, procs, parents, calendar>>

\* api_quick_booking up to its writes, the validations in the order of the code
api_quick_booking(kid_id, session_id, week_id) ==
    LET session_entity == GetEntity(sessions, session_id)
    IN  IF \/ ~HasEntity(kids, kid_id)
           \/ ~HasEntity(sessions, session_id)
           \/ ~HasEntity(weeks, week_id)
        THEN [outcome |-> "not_found", needed |-> <<>>, cw |-> {}]
        ELSE
        LET wl == week_list
            idx == start_week_idx(wl, week_id)
            duration_weeks == session_entity.duration_weeks
        IN  IF idx = None
            THEN [outcome |-> "week_not_found", needed |-> <<>>, cw |-> {}]
            ELSE IF InsufficientWeeks(wl, idx, duration_weeks)
            THEN [outcome |-> "capacity", needed |-> <<>>, cw |-> {}]
            ELSE
            LET needed == weeks_needed(wl, idx, duration_weeks)
                booked == BookedConflictWeeks(kid_id, needed)
            IN  IF AnyBlocked(needed)
                THEN [outcome |-> "blocked", needed |-> needed, cw |-> {}]
                ELSE IF booked # {}
                THEN [outcome |-> "hard_conflict", needed |-> needed,
                      \* the loop returns at the first booked booking it meets
                      cw |-> {needed[CHOOSE i \in 1..Len(needed) :
                                 /\ needed[i] \in booked
                                 /\ \A j \in 1..(i - 1) : needed[j] \notin booked].week_number}]
                ELSE [outcome |-> "created", needed |-> needed, cw |-> {}]

\* the Bookings api_quick_booking writes: state 'idea', preference_order 0
api_quick_booking_created(kid_id, session_id, week_id) ==
    LET r == api_quick_booking(kid_id, session_id, week_id)
    IN  IF Accepted(r.outcome)
        THEN NewGroup(kid_id, session_id, r.needed, "idea", 0, FreshUuids,
                      GetEntity(sessions, session_id).duration_weeks)
        ELSE {}

\* POST /api/quick-booking
QuickBooking(kid_id, session_id, week_id) ==
    /\ UuidsLeft(api_quick_booking(kid_id, session_id, week_id).needed)
    /\ bookings' = bookings \cup api_quick_booking_created(kid_id, session_id, week_id)
    /\ UNCHANGED <<camps, extracted, kids, trips, weeks, sessions, nextWeekUuid, procs, parents, calendar>>


\* ------------------------------------------------------------------------
\* State transitions, detail update and deletion of bookings
\* ------------------------------------------------------------------------
\* a group query that finds the clicked Booking only
group_bookings_Single(booking) == {booking}

\* group_bookings of booking_change_state and booking_delete
group_bookings(booking) ==
    IF booking.booking_group_id # None
    THEN {b \in query_by_user(bookings) :
             b.booking_group_id = booking.booking_group_id}
    ELSE {booking}

\* a promotion that checks nothing
ConflictsOf_Unchecked(booking_group_id, grp_booking) == {}

\* the bookings the promotion check counts as conflicts of one group member
ConflictsOf(booking_group_id, grp_booking) ==
    {other \in existing_bookings(grp_booking.kid_id, grp_booking.week_id) :
        /\ ~(booking_group_id # None /\ other.booking_group_id = booking_group_id)
        /\ other.id # grp_booking.id}

\* "if new_state == 'booked' and 'credentials' in session" followed by
\* "if kid and session_entity and week": the loop goes on to build a
\* calendar event for this member
CalendarAttempt(b, new_state, credentials) ==
    /\ new_state = "booked" /\ credentials
    /\ HasEntity(kids, b.kid_id)
    /\ HasEntity(sessions, b.session_id)
    /\ HasEntity(weeks, b.week_id)

\* parent = parents[0] if parents else {'name': .., 'email': ..}: without a
\* Parent entity the plain dict goes to entity_to_dict, which reads
\* entity.key and raises AttributeError before create_booking_event is
\* called and before update_entity
Raises(b, new_state, credentials) ==
    CalendarAttempt(b, new_state, credentials) /\ query_by_user(parents) = {}

\* a member update that stores whatever id it is handed
UpdatedMember_AlwaysEvent(b, new_state, credentials, event) ==
    [b EXCEPT !.state = new_state, !.calendar_event_id = event]

\* the update loop of booking_change_state for one member; event is what
\* create_booking_event returned for it (None: the call failed)
UpdatedMember(b, new_state, credentials, event) ==
    IF CalendarAttempt(b, new_state, credentials) /\ event # None
    THEN [b EXCEPT !.state = new_state, !.calendar_event_id = event]
    ELSE [b EXCEPT !.state = new_state]

\* booking_change_state: the response and the Bookings stored afterwards
booking_change_state(id, new_state, credentials, events) ==
    IF ~HasEntity(bookings, id)
    THEN [outcome |-> "not_found", cw |-> {}, bookings |-> bookings, events |-> {}]
    ELSE IF new_state \notin valid_states
    THEN [outcome |-> "invalid_state", cw |-> {}, bookings |-> bookings,
          events |-> {}]
    ELSE
    LET booking == GetEntity(bookings, id)
        group == group_bookings(booking)
        conflicting == {g \in group : ConflictsOf(booking.booking_group_id, g) # {}}
    IN  IF new_state = "booked" /\ conflicting # {}
        THEN \* building the warning reads week['week_number'] and kid['name']:
             \* a member whose Week or Kid is gone makes the request fail
             IF \E g \in conflicting :
                   ~HasEntity(weeks, g.week_id) \/ ~HasEntity(kids, g.kid_id)
             THEN [outcome |-> "error", cw |-> {}, bookings |-> bookings,
                   events |-> {}]
             ELSE [outcome |-> "conflict",
                   cw |-> {GetEntity(weeks, g.week_id).week_number : g \in conflicting},
                   bookings |-> bookings, events |-> {}]
        ELSE
        \* the update loop takes the members in the order of the query (by
        \* key); the first member that raises ends the request, the members
        \* before it are written
        LET raising == {g \in group : Raises(g, new_state, credentials)}
            done == {g \in group : \A r \in raising : g.id < r.id}
        IN  IF raising # {}
            THEN [outcome |-> "error", cw |-> {},
                  bookings |-> (bookings \ done) \cup
                      {UpdatedMember(g, new_state, credentials, events[g.id]) :
                          g \in done},
                  events |-> {}]
            ELSE [outcome |-> "changed", cw |-> {},
                  bookings |-> (bookings \ group) \cup
                      {UpdatedMember(g, new_state, credentials, events[g.id]) :
                          g \in group},
                  events |-> {events[g.id] : g \in
                      {h \in group : CalendarAttempt(h, new_state, credentials)}}
                      \ {None}]

\* POST /bookings/<id>/state
BookingChangeState(id, new_state, credentials, events) ==
    /\ bookings' = booking_change_state(id, new_state, credentials, events).bookings
    /\ calendar' = calendar \cup
           booking_change_state(id, new_state, credentials, events).events
    /\ UNCHANGED <<camps, extracted, kids, trips, weeks, sessions, nextWeekUuid, procs, parents>>

\* a detail update that also moves the Booking to preferred
booking_update_Promoting(id, pref) ==
    IF HasEntity(bookings, id)
    THEN (bookings \ {GetEntity(bookings, id)}) \cup
             {[GetEntity(bookings, id) EXCEPT !.preference_order = pref,
                                              !.state = "preferred"]}
    ELSE bookings

\* booking_update: the Bookings stored afterwards
booking_update(id, pref) ==
    IF HasEntity(bookings, id)
    THEN (bookings \ {GetEntity(bookings, id)}) \cup
             {[GetEntity(bookings, id) EXCEPT !.preference_order = pref]}
    ELSE bookings

\* POST /bookings/<id>/update
BookingUpdate(id, pref) ==
    /\ bookings' = booking_update(id, pref)
    /\ UNCHANGED <<camps, extracted, kids, trips, weeks, sessions, nextWeekUuid, procs, parents, calendar>>

\* a deletion that removes the clicked Booking only
booking_delete_Alone(id) ==
    IF HasEntity(bookings, id)
    THEN bookings \ {GetEntity(bookings, id)}
    ELSE bookings

\* booking_delete: the Bookings stored afterwards
booking_delete(id) ==
    IF HasEntity(bookings, id)
    THEN bookings \ group_bookings(GetEntity(bookings, id))
    ELSE bookings

\* the delete_booking_event calls of booking_delete: the event ids passed
booking_delete_events(id, credentials) ==
    IF HasEntity(bookings, id)
    THEN {g.calendar_event_id : g \in
             {h \in group_bookings(GetEntity(bookings, id)) :
                 /\ h.state = "booked"
                 /\ h.calendar_event_id # None
                 /\ credentials}}
    ELSE {}

\* POST /bookings/<id>/delete
BookingDelete(id, credentials) ==
    /\ bookings' = booking_delete(id)
    /\ calendar' = calendar \ booking_delete_events(id, credentials)
    /\ UNCHANGED <<camps, extracted, kids, trips, weeks, sessions, nextWeekUuid, procs, parents>>

\* ------------------------------------------------------------------------
\* Trips and week recalculation
\* ------------------------------------------------------------------------
\* POST /trips/new: validation, create_entity, update_week_blocking
TripNew(id, start_date, end_date) ==
    /\ id \notin {t.id : t \in trips}
    /\ IF end_date < start_date
       THEN UNCHANGED <<trips, weeks>>
       ELSE /\ trips' = trips \cup
                   {[id |-> id, user_email |-> User,
                     start_date |-> start_date, end_date |-> end_date]}
            /\ weeks' = (weeks \ query_by_user(weeks)) \cup
                   UpdateWeekBlocking(query_by_user(weeks), query_by_user(trips'))
    /\ UNCHANGED <<camps, extracted, kids, sessions, bookings, nextWeekUuid, procs, parents, calendar>>

\* POST /trips/<id>/delete: delete_entity, update_week_blocking
TripDelete(id) ==
    /\ IF HasEntity(trips, id)
       THEN /\ trips' = {t \in trips : t.id # id}
            /\ weeks' = (weeks \ query_by_user(weeks)) \cup
                   UpdateWeekBlocking(query_by_user(weeks), query_by_user(trips'))
       ELSE UNCHANGED <<trips, weeks>>
    /\ UNCHANGED <<camps, extracted, kids, sessions, bookings, nextWeekUuid, procs, parents, calendar>>

\* POST /weeks/recalculate: every Week is deleted and created again under a
\* new key
WeeksRecalculate ==
    LET new == CalculateWeeks(query_by_user(kids), query_by_user(trips),
                              query_by_user(weeks), nextWeekUuid)
        created == new \ weeks
    IN  /\ nextWeekUuid + Cardinality(created) - 1 <= MaxWeekUuid
        /\ weeks' = (weeks \ query_by_user(weeks)) \cup new
        /\ nextWeekUuid' = nextWeekUuid + Cardinality(created)
        /\ UNCHANGED <<camps, extracted, kids, trips, sessions, bookings, procs, parents, calendar>>

\* ------------------------------------------------------------------------
\* Sequential requests: every handler runs to completion before the next.
\* The requests are those of the booking workflow and of the trip pages, sent
\* by a user who has not connected a calendar ('credentials' not in session).
\* ------------------------------------------------------------------------
WeekIds == {w.id : w \in weeks}

MemberIds(id) ==
    IF HasEntity(bookings, id)
    THEN {g.id : g \in group_bookings(GetEntity(bookings, id))} ELSE {}

NoEvents(id) == [m \in MemberIds(id) |-> None]

BookingIds == {b.id : b \in bookings}

Next ==
    \/ \E k \in KidIds, s \in SessionIds, w \in WeekIds, st \in valid_states :
          BookingNew(k, s, w, st, 0)
    \/ \E k \in KidIds, s \in SessionIds, w \in WeekIds : QuickBooking(k, s, w)
    \/ \E id \in BookingIds, st \in valid_states :
          BookingChangeState(id, st, FALSE, NoEvents(id))
    \/ \E id \in BookingIds : BookingUpdate(id, 0)
    \/ \E id \in BookingIds : BookingDelete(id, FALSE)
    \/ \E id \in TripIds, d \in TripDateInputs : TripNew(id, d[1], d[2])
    \/ \E id \in {t.id : t \in trips} : TripDelete(id)
    \/ WeeksRecalculate

Spec == Init /\ [][Next]_vars

\* ------------------------------------------------------------------------
\* Interleaved requests: two requests of the same user run at once.  A
\* handler reads (its queries and checks) in one step and writes (its
\* create_entity / update_entity calls) in a later one; nothing in the code
\* ties the two together (no transaction, no lock).  The code makes every
\* datastore call on its own, so it allows every interleaving shown here and
\* more.
\* ------------------------------------------------------------------------
Procs == {1, 2}

\* booking_new up to the create loop: the validations pass and the request
\* holds the Bookings it is going to create; a rejected request ends here
NewCheck(p, kid_id, session_id, week_id, state) ==
    LET r == booking_new(kid_id, session_id, week_id, state)
        created == booking_new_created(kid_id, session_id, week_id, state, 0)
    IN  /\ procs[p].pc = "idle"
        /\ Accepted(r.outcome)
        /\ UuidsLeft(r.needed)
        /\ procs' = [procs EXCEPT ![p] =
               [pc |-> "write",
                uuids |-> {b.id : b \in created} \cup {b.booking_group_id : b \in created},
                writes |-> created]]
        /\ UNCHANGED <<camps, extracted, kids, trips, weeks, sessions, bookings, nextWeekUuid,
                     parents, calendar>>

\* booking_change_state up to the update loop: the check passes and the
\* request holds the members as it read them, with the new state
ChangeCheck(p, id, new_state) ==
    LET r == booking_change_state(id, new_state, FALSE, NoEvents(id))
    IN  /\ procs[p].pc = "idle"
        /\ r.outcome = "changed"
        /\ procs' = [procs EXCEPT ![p] =
               [pc |-> "write", uuids |-> {},
                writes |-> {UpdatedMember(g, new_state, FALSE, None) :
                               g \in group_bookings(GetEntity(bookings, id))}]]
        /\ UNCHANGED <<camps, extracted, kids, trips, weeks, sessions, bookings, nextWeekUuid,
                     parents, calendar>>

\* the create loop / update loop: client.put of every entity the request holds
Write(p) ==
    /\ procs[p].pc = "write"
    /\ bookings' = {b \in bookings : b.id \notin {w.id : w \in procs[p].writes}}
                       \cup procs[p].writes
    /\ procs' = [procs EXCEPT ![p] = Idle]
    /\ UNCHANGED <<camps, extracted, kids, trips, weeks, sessions, nextWeekUuid, parents, calendar>>

\* the requests of the race: one kid's bookings of the one-week and the
\* two-week session, created as idea or booked, and promotions
RaceStates == {"idea", "booked"}

NextRace ==
    \/ \E p \in Procs, s \in {1, 2}, w \in WeekIds, st \in RaceStates :
          NewCheck(p, 1, s, w, st)
    \/ \E p \in Procs, id \in BookingIds : ChangeCheck(p, id, "booked")
    \/ \E p \in Procs : Write(p)

SpecRace == Init /\ [][NextRace]_vars

\* ------------------------------------------------------------------------
\* Legacy cleanup
\* ------------------------------------------------------------------------
\* a repair that renumbers every Booking as week 1 of 1
cleanup_booking_Renumbering(booking) ==
    [booking EXCEPT !.booking_group_id = IF @ = None THEN booking.id ELSE @,
                    !.week_of_session = 1,
                    !.total_weeks = 1]

\* one Booking after the loop body of bookings_cleanup
cleanup_booking(booking) ==
    [booking EXCEPT !.booking_group_id = IF @ = None THEN booking.id ELSE @,
                    !.week_of_session = IF @ = None THEN 1 ELSE @,
                    !.total_weeks = IF @ = None \/ @ = 0 THEN 1 ELSE @]

\* needs_update: the Bookings bookings_cleanup writes with update_entity
needs_update(booking) ==
    \/ booking.booking_group_id = None
    \/ booking.week_of_session = None
    \/ booking.total_weeks = None \/ booking.total_weeks = 0

\* bookings_cleanup: the Bookings stored afterwards; every Booking of the user
\* gets the grouping fields it lacks ("not booking.get(..)" also replaces a
\* total_weeks of 0)
bookings_cleanup ==
    (bookings \ query_by_user(bookings)) \cup
    {cleanup_booking(b) : b \in query_by_user(bookings)}

\* POST /bookings/cleanup
BookingsCleanup ==
    /\ bookings' = bookings_cleanup
    /\ UNCHANGED <<camps, extracted, kids, trips, weeks, sessions, nextWeekUuid, procs, parents, calendar>>

\* ------------------------------------------------------------------------
\* Sequential requests of a user who has connected a calendar ('credentials'
\* in session) and may have a Parent entity, on a datastore that also holds
\* another account's entities and a Booking written before bookings were
\* grouped (the data bookings_cleanup exists for).
\* ------------------------------------------------------------------------
MaxEventId == 2
EventIds == 1..MaxEventId

\* keys the model gives to entities that no request of the model creates
ForeignKidId == 3
ForeignSessionId == 4
ForeignCampId == 2
ForeignWeekId == 10
LegacyBookingId == 11
ForeignBookingId == 12
UnknownId == 9

ForeignKid ==
    [id |-> ForeignKidId, user_email |-> OtherUser,
     last_day_of_school |-> 2, first_day_of_school |-> 23]

ForeignCamp == [id |-> ForeignCampId, user_email |-> OtherUser]

ForeignSession ==
    [id |-> ForeignSessionId, user_email |-> OtherUser,
     camp_id |-> ForeignCampId, duration_weeks |-> 1,
     session_start_date |-> None, session_end_date |-> None]

ForeignWeek ==
    [id |-> ForeignWeekId, user_email |-> OtherUser, week_number |-> 1,
     start_date |-> 7, end_date |-> 11, is_blocked |-> FALSE]

\* a Booking as the application stored it before booking groups existed
LegacyBooking ==
    [id |-> LegacyBookingId, user_email |-> User, kid_id |-> 1,
     session_id |-> 1, week_id |-> 3, state |-> "idea",
     preference_order |-> 0, calendar_event_id |-> None,
     booking_group_id |-> None, week_of_session |-> None, total_weeks |-> None]

ForeignBooking ==
    [id |-> ForeignBookingId, user_email |-> OtherUser, kid_id |-> ForeignKidId,
     session_id |-> ForeignSessionId, week_id |-> ForeignWeekId,
     state |-> "booked", preference_order |-> 0, calendar_event_id |-> None,
     booking_group_id |-> ForeignBookingId, week_of_session |-> 1,
     total_weeks |-> 1]

TheParent == [id |-> 1, user_email |-> User]

InitCalendar ==
    /\ kids = InitKids \cup {ForeignKid}
    /\ trips = {}
    /\ weeks = CalculateWeeks(InitKids, {}, {}, 1) \cup {ForeignWeek}
    /\ nextWeekUuid = Cardinality(query_by_user(weeks)) + 1
    /\ sessions = InitSessions \cup {ForeignSession}
    /\ bookings = {LegacyBooking, ForeignBooking}
    /\ procs = [p \in {1, 2} |-> Idle]
    /\ parents \in {{}, {TheParent}}
    /\ calendar = {}
    /\ camps = InitCamps \cup {ForeignCamp}
    /\ extracted = <<>>

\* what create_booking_event returns for the members of a group: None or the
\* id of the event it created, a new id each time
EventChoices(id) ==
    {f \in [MemberIds(id) -> {None} \cup (EventIds \ calendar)] :
        \A m, n \in MemberIds(id) : m # n /\ f[m] # None => f[m] # f[n]}

\* the ids a request of the model names: stored ones, another account's, and
\* one under which nothing is stored
KidInputs == {1, ForeignKidId, UnknownId}
SessionInputs == {1, 2, ForeignSessionId, UnknownId}
WeekInputs == {w.id : w \in weeks} \cup {UnknownId}

\* the form creates two-week groups of kid 1 from any week of the grid, or
\* names a kid or week that is not the user's
FormInputs ==
    {<<1, 2, w.id>> : w \in query_by_user(weeks)}
    \cup {<<ForeignKidId, 2, 1>>, <<1, 2, ForeignWeekId>>}

\* a quick booking is made for the first week of the grid, or names a
\* session that is not the user's or not stored
QuickInputs ==
    {<<1, 1, w.id>> : w \in SeqToSet(PySlice(week_list, 0, 1))}
    \cup {<<1, ForeignSessionId, 1>>, <<1, UnknownId, 1>>}

NextCalendar ==
    \/ \E c \in FormInputs : BookingNew(c[1], c[2], c[3], "idea", 0)
    \/ \E c \in QuickInputs : QuickBooking(c[1], c[2], c[3])
    \/ \E id \in BookingIds : BookingChangeState(id, "idea", TRUE, NoEvents(id))
    \/ \E id \in BookingIds : \E events \in EventChoices(id) :
          BookingChangeState(id, "booked", TRUE, events)
    \/ \E id \in BookingIds : BookingUpdate(id, 0)
    \/ \E id \in BookingIds : BookingDelete(id, TRUE)
    \/ BookingsCleanup
    \/ \E id \in TripIds, d \in TripDateInputs : TripNew(id, d[1], d[2])
    \/ \E id \in {t.id : t \in trips} : TripDelete(id)
    \/ WeeksRecalculate

SpecCalendar == InitCalendar /\ [][NextCalendar]_vars

\* ------------------------------------------------------------------------
\* One transition to booked, call by call: the handler's conflict check, and
\* then for each member of the group, in the order of the update loop, the
\* create_booking_event call followed by update_entity.  The user has
\* connected a calendar and has a Parent entity; creations and deletions run
\* between two transitions.
\* ------------------------------------------------------------------------
\* the request at work in the update loop: todo are the keys of the members
\* not yet written, event is what the last create_booking_event returned
InLoop(pc, todo, event) ==
    [pc |-> pc, uuids |-> {}, writes |-> {}, todo |-> todo, event |-> event]

\* the member the loop is at: the query returns the group ordered by key
Current(p) ==
    GetEntity(bookings, CHOOSE m \in procs[p].todo : \A n \in procs[p].todo : m <= n)

\* POST /bookings/<id>/state with state=booked up to the update loop; a
\* request that is rejected, or that raises, ends here
PromoteCheck(p, id) ==
    /\ procs[p].pc = "idle"
    /\ booking_change_state(id, "booked", TRUE, NoEvents(id)).outcome = "changed"
    /\ procs' = [procs EXCEPT ![p] = InLoop("calendar", MemberIds(id), None)]
    /\ UNCHANGED <<camps, extracted, kids, trips, weeks, sessions, bookings, nextWeekUuid,
                   parents, calendar>>

\* create_booking_event for the current member (not called when its Kid,
\* Session or Week is missing); event: the id of the created event, or None
PromoteCalendar(p, event) ==
    /\ procs[p].pc = "calendar"
    /\ event # None => /\ CalendarAttempt(Current(p), "booked", TRUE)
                       /\ event \notin calendar
    /\ calendar' = calendar \cup ({event} \ {None})
    /\ procs' = [procs EXCEPT ![p] = InLoop("put", procs[p].todo, event)]
    /\ UNCHANGED <<camps, extracted, kids, trips, weeks, sessions, bookings, nextWeekUuid, parents>>

\* update_entity(client, grp_booking, update_data) for the current member
PromotePut(p) ==
    /\ procs[p].pc = "put"
    /\ bookings' = (bookings \ {Current(p)}) \cup
           {UpdatedMember(Current(p), "booked", TRUE, procs[p].event)}
    /\ procs' = [procs EXCEPT ![p] =
           IF procs[p].todo = {Current(p).id} THEN Idle
           ELSE InLoop("calendar", procs[p].todo \ {Current(p).id}, None)]
    /\ UNCHANGED <<camps, extracted, kids, trips, weeks, sessions, nextWeekUuid, parents, calendar>>

InitSteps ==
    /\ kids = InitKids
    /\ trips = {}
    /\ weeks = CalculateWeeks(InitKids, {}, {}, 1)
    /\ nextWeekUuid = Cardinality(weeks) + 1
    /\ sessions = InitSessions
    /\ bookings = {}
    /\ procs = [p \in {1, 2} |-> Idle]
    /\ parents = {TheParent}
    /\ calendar = {}
    /\ camps = InitCamps
    /\ extracted = <<>>

NextSteps ==
    \/ \E w \in WeekIds :
          procs[1].pc = "idle" /\ BookingNew(1, 2, w, "idea", 0)
    \/ \E k \in KidIds, w \in WeekIds :
          procs[1].pc = "idle" /\ QuickBooking(k, 1, w)
    \/ \E id \in BookingIds :
          procs[1].pc = "idle" /\ BookingDelete(id, TRUE)
    \/ \E id \in BookingIds : PromoteCheck(1, id)
    \/ \E event \in EventIds \cup {None} : PromoteCalendar(1, event)
    \/ PromotePut(1)

SpecSteps == InitSteps /\ [][NextSteps]_vars

\* ------------------------------------------------------------------------
\* Vocabulary of the properties
\* ------------------------------------------------------------------------
\* two Bookings of the same kid and week
SameSlot(a, b) == a.kid_id = b.kid_id /\ a.week_id = b.week_id

\* two Bookings of different booking groups
OtherGroup(a, b) == a.id # b.id /\ a.booking_group_id # b.booking_group_id

\* N of a request: the duration_weeks of its session
Duration(session_id) == GetEntity(sessions, session_id).duration_weeks

\* week_number of the week a request starts at; the index i is one less
StartNumber(week_id) == GetEntity(weeks, week_id).week_number

\* the stored Weeks at indices i..i+N-1 of the weeks ordered by week_number
RunWeeks(week_id, N) ==
    {w \in weeks : /\ w.week_number >= StartNumber(week_id)
                   /\ w.week_number < StartNumber(week_id) + N}

\* the Bookings of a kid in a set of Weeks
SlotBookings(kid_id, W) ==
    {b \in bookings : b.kid_id = kid_id /\ b.week_id \in {w.id : w \in W}}

\* ------------------------------------------------------------------------
\* Properties of the sequential workflow (Spec)
\* ------------------------------------------------------------------------
\* C1: in every state reachable by sequential creations (form path with any
\* requested state, quick path), change-state requests, group deletions,
\* detail updates and trip re-blocking, each (kid_id, week_id) pair has at
\* most one Booking with state = booked, also across booking groups.
C1_AtMostOneBookedPerSlot ==
    \A a, b \in bookings :
        (a.state = "booked" /\ b.state = "booked" /\ SameSlot(a, b)) => a = b

\* a booked group of two weeks of one kid, and a booked Booking of the
\* other kid in one of those weeks
C1_Witness ==
    \E a, b, c \in bookings :
        /\ a.state = "booked" /\ b.state = "booked" /\ c.state = "booked"
        /\ a.booking_group_id = b.booking_group_id /\ a.week_id # b.week_id
        /\ c.week_id = a.week_id /\ c.kid_id # a.kid_id

\* the Bookings of one booking group
GroupOf(b) == {g \in bookings : g.booking_group_id = b.booking_group_id}

\* the members of b's group whose slot also holds a Booking outside the group
ContestedMembers(b) ==
    {g \in GroupOf(b) : \E o \in bookings \ GroupOf(b) : SameSlot(o, g)}

\* state values a change-state form can submit
RequestStates == valid_states \cup {"waitlist"}

\* a change-state request of a user without calendar credentials
ChangeState(b, new_state) ==
    booking_change_state(b.id, new_state, FALSE, NoEvents(b.id))

\* C3: a change-state request to booked is rejected whenever, for at least
\* one week of the group, a Booking outside the group exists for the same
\* (kid_id, week_id), whatever its state; the rejection reports the
\* conflicting weeks, and no Booking is changed.
C3_PromotionRejectedAndReported ==
    \A b \in bookings :
        ContestedMembers(b) # {} =>
            /\ ChangeState(b, "booked").outcome = "conflict"
            /\ ChangeState(b, "booked").cw =
                  {StartNumber(g.week_id) : g \in ContestedMembers(b)}
            /\ ChangeState(b, "booked").bookings = bookings

\* C4: group transitions are atomic: after any change-state request on any
\* member, every Booking of the group has the requested state or every
\* Booking is as it was; no reachable state has members of one group in
\* different states.
C4_GroupTransitionsAtomic ==
    /\ \A a, b \in bookings :
          a.booking_group_id = b.booking_group_id => a.state = b.state
    /\ \A b \in bookings, st \in RequestStates :
          LET after == ChangeState(b, st).bookings
              members == {g \in after : g.booking_group_id = b.booking_group_id}
          IN  \/ after = bookings
              \/ /\ {g.id : g \in members} = {g.id : g \in GroupOf(b)}
                 /\ \A g \in members : g.state = st
                 /\ after \ members = bookings \ GroupOf(b)

\* a group of two ideas of which one member shares its slot with another
\* group: its promotion to booked is refused for both, its move to preferred
\* reaches both
C4_Witness ==
    \E b \in bookings :
        /\ Cardinality(GroupOf(b)) = 2
        /\ Cardinality(ContestedMembers(b)) = 1
        /\ b.state = "idea"
        /\ \A g \in GroupOf(b) : HasEntity(weeks, g.week_id)
        /\ ChangeState(b, "booked").outcome = "conflict"
        /\ ChangeState(b, "booked").bookings = bookings
        /\ ChangeState(b, "preferred").outcome = "changed"
        /\ \A g \in ChangeState(b, "preferred").bookings :
              g.booking_group_id = b.booking_group_id => g.state = "preferred"

\* C5: booking creation (form path and quick path) is rejected, creating no
\* Booking, whenever a week the new group would occupy holds a booked
\* Booking of the same kid, regardless of the requested state.
C5_BookedSlotRejectsCreation ==
    \A k \in KidIds, s \in SessionIds, w \in WeekIds, st \in valid_states :
        (\E b \in SlotBookings(k, RunWeeks(w, Duration(s))) : b.state = "booked")
        => /\ ~Accepted(booking_new(k, s, w, st).outcome)
           /\ booking_new_created(k, s, w, st, 0) = {}
           /\ ~Accepted(api_quick_booking(k, s, w).outcome)
           /\ api_quick_booking_created(k, s, w) = {}

\* the second week of a two-week run holds a booked Booking, the first is
\* free: an idea is refused on both paths
C5_Witness ==
    \E k \in KidIds, s \in SessionIds, w \in WeekIds :
        /\ Duration(s) = 2
        /\ SlotBookings(k, {GetEntity(weeks, w)}) = {}
        /\ \E b \in SlotBookings(k, RunWeeks(w, 2)) : b.state = "booked"
        /\ booking_new(k, s, w, "idea").outcome = "hard_conflict"
        /\ api_quick_booking(k, s, w).outcome = "hard_conflict"

\* the week order position (from 1) of a stored week within a run starting
\* at week_id
PositionInRun(week_id, member_week_id) ==
    StartNumber(member_week_id) - StartNumber(week_id) + 1

\* the uuid4 pool of the model still holds a group id and n keys
PoolHolds(n) == Len(FreshUuids) >= 1 + n

\* created is one full new group for a run of N weeks starting at week_id
FullGroup(created, kid_id, session_id, week_id, N, state) ==
    /\ Cardinality(created) = N
    /\ {b.week_id : b \in created} = {w.id : w \in RunWeeks(week_id, N)}
    /\ \A b \in created :
          /\ b.kid_id = kid_id /\ b.session_id = session_id /\ b.state = state
          /\ b.total_weeks = N
          /\ b.week_of_session = PositionInRun(week_id, b.week_id)
          /\ b.calendar_event_id = None
          /\ b.id \notin {e.id : e \in bookings}
          /\ b.booking_group_id \notin {e.booking_group_id : e \in bookings}
    /\ \A a, b \in created : a.booking_group_id = b.booking_group_id

\* every validation of a creation other than the conflict check passes
OtherValidationsPass(session_id, week_id) ==
    LET N == Duration(session_id)
        session_entity == GetEntity(sessions, session_id)
    IN  /\ StartNumber(week_id) - 1 + N <= Cardinality(weeks)
        /\ \A w \in RunWeeks(week_id, N) : ~w.is_blocked
        /\ \/ session_entity.session_start_date = None
           \/ session_entity.session_end_date = None
           \/ \A w \in RunWeeks(week_id, N) : ~OutsideSessionRange(session_entity, w)

\* the slots of the run hold Bookings of the kid, none of them booked
SoftConflict(kid_id, session_id, week_id) ==
    LET there == SlotBookings(kid_id, RunWeeks(week_id, Duration(session_id)))
    IN  /\ there # {}
        /\ \A b \in there : b.state # "booked"
        /\ OtherValidationsPass(session_id, week_id)

\* week numbers of the run that hold a Booking of the kid
ContestedNumbers(kid_id, session_id, week_id) ==
    {w.week_number : w \in {x \in RunWeeks(week_id, Duration(session_id)) :
                               SlotBookings(kid_id, {x}) # {}}}

\* C6 as the specification states it: when the slots of the new group hold
\* Bookings but none is booked and all other validations pass, the full
\* group is created and the outcome is reported as contested, for every
\* requested state (on the form path and on the quick path).
C6_SoftConflictAlwaysAllowed ==
    \A k \in KidIds, s \in SessionIds, w \in WeekIds, st \in valid_states :
        (SoftConflict(k, s, w) /\ PoolHolds(Duration(s))) =>
            /\ booking_new(k, s, w, st).outcome = "contested"
            /\ FullGroup(booking_new_created(k, s, w, st, 0), k, s, w, Duration(s), st)
            /\ api_quick_booking(k, s, w).outcome = "contested"
            /\ FullGroup(api_quick_booking_created(k, s, w), k, s, w, Duration(s), "idea")

\* C6 as the code has it: in that situation the form path creates the full
\* group and reports it as contested, naming the weeks, for the requested
\* states idea and preferred, and rejects the request, creating nothing, for
\* the requested state booked; the quick path creates the full group as idea
\* and reports plain success.
C6_SoftConflictAllowedUnlessBooked ==
    \A k \in KidIds, s \in SessionIds, w \in WeekIds, st \in valid_states :
        (SoftConflict(k, s, w) /\ PoolHolds(Duration(s))) =>
            /\ st # "booked" =>
                  /\ booking_new(k, s, w, st).outcome = "contested"
                  /\ booking_new(k, s, w, st).cw = ContestedNumbers(k, s, w)
                  /\ FullGroup(booking_new_created(k, s, w, st, 0),
                               k, s, w, Duration(s), st)
            /\ st = "booked" =>
                  /\ booking_new(k, s, w, st).outcome = "conflict"
                  /\ booking_new(k, s, w, st).cw = ContestedNumbers(k, s, w)
                  /\ booking_new_created(k, s, w, st, 0) = {}
            /\ api_quick_booking(k, s, w).outcome = "created"
            /\ FullGroup(api_quick_booking_created(k, s, w), k, s, w, Duration(s), "idea")

\* a two-week run whose second week alone holds a preferred Booking of the
\* kid: created as contested when requested as idea, refused when requested
\* as booked
C6_Witness ==
    \E k \in KidIds, s \in SessionIds, w \in WeekIds :
        /\ Duration(s) = 2
        /\ SoftConflict(k, s, w) /\ PoolHolds(2)
        /\ SlotBookings(k, {GetEntity(weeks, w)}) = {}
        /\ \E b \in SlotBookings(k, RunWeeks(w, 2)) : b.state = "preferred"
        /\ booking_new(k, s, w, "idea").outcome = "contested"
        /\ Cardinality(booking_new_created(k, s, w, "idea", 0)) = 2
        /\ booking_new(k, s, w, "booked").outcome = "conflict"

\* C7: if the starting week has index i in the weeks ordered by week_number
\* and i + N > number of weeks, creation fails with a capacity error and
\* creates no Booking (form path and quick path).
C7_CapacityConflict ==
    \A k \in KidIds, s \in SessionIds, w \in WeekIds, st \in valid_states :
        (StartNumber(w) - 1 + Duration(s) > Cardinality(weeks)) =>
            /\ booking_new(k, s, w, st).outcome = "capacity"
            /\ booking_new_created(k, s, w, st, 0) = {}
            /\ api_quick_booking(k, s, w).outcome = "capacity"
            /\ api_quick_booking_created(k, s, w) = {}

\* a two-week session requested at the last week, which is free and not
\* blocked
C7_Witness ==
    \E k \in KidIds, s \in SessionIds, w \in WeekIds :
        /\ Duration(s) = 2
        /\ StartNumber(w) = Cardinality(weeks)
        /\ ~GetEntity(weeks, w).is_blocked
        /\ SlotBookings(k, {GetEntity(weeks, w)}) = {}
        /\ bookings # {}
        /\ booking_new(k, s, w, "idea").outcome = "capacity"
        /\ api_quick_booking(k, s, w).outcome = "capacity"

\* C8: if any of the N consecutive weeks a booking would occupy is blocked at
\* the time of the request, the whole allocation is rejected and no Booking
\* is created for any week.
C8_BlockedWeekRejectsAll ==
    \A k \in KidIds, s \in SessionIds, w \in WeekIds, st \in valid_states :
        (\E x \in RunWeeks(w, Duration(s)) : x.is_blocked) =>
            /\ ~Accepted(booking_new(k, s, w, st).outcome)
            /\ booking_new_created(k, s, w, st, 0) = {}
            /\ ~Accepted(api_quick_booking(k, s, w).outcome)
            /\ api_quick_booking_created(k, s, w) = {}

\* a trip blocks the second week of a two-week run and not the first: the
\* request is refused as blocked on both paths
C8_Witness ==
    \E k \in KidIds, s \in SessionIds, w \in WeekIds :
        /\ Duration(s) = 2
        /\ trips # {}
        /\ ~GetEntity(weeks, w).is_blocked
        /\ \E x \in RunWeeks(w, 2) : x.is_blocked
        /\ booking_new(k, s, w, "idea").outcome = "blocked"
        /\ api_quick_booking(k, s, w).outcome = "blocked"

\* C9: in every reachable state all Bookings of a booking group have the same
\* kid_id and session_id, total_weeks equal to the size of the group, and
\* week_of_session values exactly 1..N, position k on the k-th of N
\* consecutive stored Weeks.
C9_GroupsWellFormed ==
    \A b \in bookings :
        LET n == Cardinality(GroupOf(b))
        IN  /\ {g.week_of_session : g \in GroupOf(b)} = 1..n
            /\ \A g \in GroupOf(b) :
                  /\ g.kid_id = b.kid_id /\ g.session_id = b.session_id
                  /\ g.total_weeks = n
                  /\ HasEntity(weeks, g.week_id)
            /\ \A g, h \in GroupOf(b) :
                  StartNumber(h.week_id) - StartNumber(g.week_id)
                      = h.week_of_session - g.week_of_session

\* C10: a successful creation for a session with duration_weeks = N starting
\* at week index i creates exactly N Bookings, one per week at indices
\* i..i+N-1, all with one fresh booking_group_id, week_of_session 1..N in
\* week order, total_weeks = N and the requested state ('idea' on the quick
\* path).
C10_CreationMakesFullGroup ==
    \A k \in KidIds, s \in SessionIds, w \in WeekIds, st \in valid_states :
        /\ (Accepted(booking_new(k, s, w, st).outcome)
               /\ UuidsLeft(booking_new(k, s, w, st).needed))
           => FullGroup(booking_new_created(k, s, w, st, 0), k, s, w, Duration(s), st)
        /\ (Accepted(api_quick_booking(k, s, w).outcome)
               /\ UuidsLeft(api_quick_booking(k, s, w).needed))
           => FullGroup(api_quick_booking_created(k, s, w), k, s, w, Duration(s), "idea")

\* ------------------------------------------------------------------------
\* Properties of interleaved requests (SpecRace)
\* ------------------------------------------------------------------------
\* C2: check and write of a creation or of a promotion to booked are one
\* atomic step per (kid_id, week_id): two interleaved requests for different
\* booking groups on the same kid and week cannot both pass the conflict
\* check before either commits, so they never both end with a Booking in
\* state booked for that pair.
C2_CheckAndWriteAtomic ==
    \A a, b \in bookings :
        (a.state = "booked" /\ b.state = "booked" /\ SameSlot(a, b))
            => ~OtherGroup(a, b)

\* ------------------------------------------------------------------------
\* Properties of a shared datastore, a connected calendar and legacy data
\* (SpecCalendar)
\* ------------------------------------------------------------------------
\* an entity of the signed-in user is stored under the key
OwnedBy(S, id, user_email) == \E e \in S : e.id = id /\ e.user_email = user_email

AllInputIds == 1..12

\* C11: a creation request (form or quick API) whose kid_id, session_id or
\* week_id names an entity that is not stored, or that belongs to another
\* user, is answered with not-found and creates no Booking; and an
\* ownership-checked fetch never returns an entity of an owner other than
\* the caller.
C11_UnownedReferenceNotFound ==
    /\ \A k \in KidInputs, s \in SessionInputs, w \in WeekInputs :
          (\/ ~OwnedBy(kids, k, User)
           \/ ~OwnedBy(sessions, s, User)
           \/ ~OwnedBy(weeks, w, User))
          => /\ \A st \in RequestStates :
                   /\ booking_new(k, s, w, st).outcome = "not_found"
                   /\ booking_new_created(k, s, w, st, 0) = {}
             /\ api_quick_booking(k, s, w).outcome = "not_found"
             /\ api_quick_booking_created(k, s, w) = {}
    /\ \A id \in AllInputIds, u \in Users :
          /\ \A e \in get_entity_for_user(kids, id, u) : e.user_email = u
          /\ \A e \in get_entity_for_user(sessions, id, u) : e.user_email = u
          /\ \A e \in get_entity_for_user(weeks, id, u) : e.user_email = u
          /\ \A e \in get_entity_for_user(bookings, id, u) : e.user_email = u

\* the user has created a group, and requests naming the other account's kid,
\* session or week, or an unknown session, are answered with not-found
C11_Witness ==
    /\ \E b \in query_by_user(bookings) : b.booking_group_id \in BookingIdPool
    /\ OwnedBy(kids, ForeignKidId, OtherUser)
    /\ booking_new(ForeignKidId, 1, 1, "idea").outcome = "not_found"
    /\ api_quick_booking(1, ForeignSessionId, 1).outcome = "not_found"
    /\ booking_new(1, 1, ForeignWeekId, "idea").outcome = "not_found"
    /\ api_quick_booking(1, UnknownId, 1).outcome = "not_found"
    /\ get_entity_for_user(bookings, ForeignBookingId, OtherUser) # {}
    /\ get_entity_for_user(bookings, ForeignBookingId, User) = {}

\* C12: deleting a Booking that has a booking_group_id deletes every Booking
\* sharing that group id; deleting a Booking without booking_group_id (legacy)
\* deletes that Booking alone and removes no other Booking.
C12_DeleteTakesWholeGroup ==
    \A b \in query_by_user(bookings) :
        IF b.booking_group_id # None
        THEN \A g \in query_by_user(bookings) :
                g.booking_group_id = b.booking_group_id
                => g \notin booking_delete(b.id)
        ELSE booking_delete(b.id) = bookings \ {b}

\* a two-week group and a Booking without group id are stored together with
\* another Booking; deleting a member removes both members and only them,
\* deleting the legacy Booking removes only it
C12_Witness ==
    \E b, g \in query_by_user(bookings) :
        /\ b.booking_group_id # None /\ g.booking_group_id = b.booking_group_id
        /\ g.id # b.id
        /\ booking_delete(b.id) = bookings \ {b, g}
        /\ LegacyBooking \in bookings
        /\ booking_delete(LegacyBookingId) = bookings \ {LegacyBooking}
        /\ Cardinality(query_by_user(bookings)) >= 4

\* the Bookings deleted, promoted and demoted together with b
Members(b) ==
    IF b.booking_group_id = None THEN {b}
    ELSE {g \in bookings : /\ g.user_email = b.user_email
                           /\ g.booking_group_id = b.booking_group_id}

\* the conflict check of a promotion of b's group passes: no slot of a member
\* holds a Booking of the user outside the group
CheckPasses(b) ==
    \A g \in Members(b) :
        ~\E o \in bookings \ Members(b) :
            o.user_email = b.user_email /\ SameSlot(o, g)

\* the transition of b's group to booked by a user with a connected calendar
Promote(b, events) == booking_change_state(b.id, "booked", TRUE, events)

\* C13: when the conflict check of a transition to booked has passed, a
\* failure of calendar-event creation never reverts or prevents the state
\* change: every member of the group ends booked whether calendar creation
\* succeeded for all, some or none of them, and the request completes (a
\* failure for one member does not stop the others).
C13_CalendarFailureKeepsBooked ==
    \A b \in query_by_user(bookings) :
        CheckPasses(b)
        => \A events \in EventChoices(b.id) :
              /\ Promote(b, events).outcome = "changed"
              /\ \A g \in Members(b) :
                    \E h \in Promote(b, events).bookings :
                        h.id = g.id /\ h.state = "booked"

\* ------------------------------------------------------------------------
\* Properties of the order of the calls of one transition (SpecSteps)
\* ------------------------------------------------------------------------
\* C14: during a transition to booked, calendar-event creation is attempted
\* only after the conflict check has passed and after state = booked has been
\* written to every member of the group: when a create_booking_event call
\* has been made, every member is already stored as booked.
C14_CalendarAfterAllWrites ==
    \A p \in Procs :
        procs[p].pc = "put"
        => \A m \in procs[p].todo : GetEntity(bookings, m).state = "booked"

\* ------------------------------------------------------------------------
\* Properties of the calendar event ids (SpecCalendar)
\* ------------------------------------------------------------------------
\* C15: when the user has calendar credentials, deleting a group makes a
\* calendar-event deletion call for every deleted Booking whose
\* calendar_event_id is set, whatever state changes the group went through
\* before.
C15_DeleteCleansCalendar ==
    \A b \in query_by_user(bookings) :
        \A g \in Members(b) :
            g.calendar_event_id # None
            => g.calendar_event_id \in booking_delete_events(b.id, TRUE)

\* C16: calendar_event_id is none on every newly created Booking, and the
\* only request that sets or changes it on a stored Booking is a change-state
\* to booked for which calendar creation returned an id: in every step, a
\* Booking that appears has no calendar_event_id, and a Booking whose
\* calendar_event_id differs from before is booked and holds the id of an
\* event created in that step.  Creation, detail update, transitions to idea
\* or preferred, trip re-blocking, recalculation and legacy cleanup leave it
\* alone.
C16_EventIdOnlyByPromotion ==
    [][\A a \in bookings' :
          IF \E b \in bookings : b.id = a.id
          THEN \A b \in bookings :
                  b.id = a.id /\ b.calendar_event_id # a.calendar_event_id
                  => /\ a.state = "booked"
                     /\ a.calendar_event_id \in calendar' \ calendar
          ELSE a.calendar_event_id = None]_vars

\* a booked Booking holds the id of a calendar event while a group created
\* later has none, after the legacy Booking went through cleanup and a trip
\* re-blocked the weeks
C16_Witness ==
    /\ \E b, c \in query_by_user(bookings) :
          /\ b.state = "booked" /\ b.calendar_event_id \in calendar
          /\ c.booking_group_id \in BookingIdPool
          /\ c.calendar_event_id = None
    /\ \E l \in bookings : l.id = LegacyBookingId /\ l.booking_group_id # None
    /\ trips # {}

\* ------------------------------------------------------------------------
\* Properties of the booking state machine and of week blocking (Spec)
\* ------------------------------------------------------------------------
\* C17: the state of every stored Booking is idea, preferred or booked:
\* neither a creation request nor a change-state request, whatever state
\* value it submits, stores a Booking with another value.
C17_StoredStateValid ==
    /\ \A b \in bookings : b.state \in valid_states
    /\ \A b \in bookings, st \in RequestStates :
          \A h \in ChangeState(b, st).bookings : h.state \in valid_states
    /\ \A k \in KidIds, s \in SessionIds, w \in WeekIds, st \in RequestStates :
          \A c \in booking_new_created(k, s, w, st, 0) : c.state \in valid_states

\* the place of a state in idea -> preferred -> booked
Rank(state) == CASE state = "idea" -> 1 [] state = "preferred" -> 2 [] OTHER -> 3

\* C18: the state of a Booking only moves forward along
\* idea -> preferred -> booked, or the Booking is deleted: no step takes a
\* stored Booking from booked to preferred or idea, or from preferred to idea.
C18_StateOnlyForward ==
    [][\A b \in bookings, a \in bookings' :
          a.id = b.id => Rank(a.state) >= Rank(b.state)]_vars

\* ------------------------------------------------------------------------
\* No automatic promotion (SpecCalendar)
\* ------------------------------------------------------------------------
\* every Booking stored before and after keeps state, kid, session and week
Preserved(after) ==
    \A b \in bookings, a \in after :
        a.id = b.id => /\ a.state = b.state
                       /\ a.kid_id = b.kid_id
                       /\ a.session_id = b.session_id
                       /\ a.week_id = b.week_id

\* C19: there is no automatic promotion: a detail update, the creation or
\* deletion of another group, legacy cleanup, trip re-blocking and week
\* recalculation leave state, kid_id, session_id and week_id of every
\* existing Booking unchanged.  For every such request the Bookings stored
\* afterwards preserve those fields, and in every step in which the state of a
\* Booking changes, no Booking is created or deleted, no Week or Trip
\* changes, and the changes are confined to that Booking's group.
C19_NoAutomaticPromotion ==
    /\ [](/\ \A id \in BookingIds, pref \in {0, 1} :
                Preserved(booking_update(id, pref))
          /\ \A id \in BookingIds : Preserved(booking_delete(id))
          /\ Preserved(bookings_cleanup)
          /\ \A c \in FormInputs, st \in valid_states :
                UuidsLeft(booking_new(c[1], c[2], c[3], st).needed)
                => Preserved(bookings \cup
                       booking_new_created(c[1], c[2], c[3], st, 0))
          /\ \A c \in QuickInputs :
                UuidsLeft(api_quick_booking(c[1], c[2], c[3]).needed)
                => Preserved(bookings \cup
                       api_quick_booking_created(c[1], c[2], c[3])))
    /\ [][\A b \in bookings, a \in bookings' :
             a.id = b.id
             => /\ a.kid_id = b.kid_id
                /\ a.session_id = b.session_id
                /\ a.week_id = b.week_id
                /\ a.state # b.state
                   => /\ {x.id : x \in bookings'} = {x.id : x \in bookings}
                      /\ weeks' = weeks /\ trips' = trips
                      /\ \A c \in bookings, d \in bookings' :
                            d.id = c.id /\ d.state # c.state => c \in Members(b)]_vars

\* after legacy cleanup, a trip and a recalculation, the legacy Booking is
\* still an idea on its week while a group promoted by request is booked
C19_Witness ==
    /\ \E l \in bookings : /\ l.id = LegacyBookingId
                           /\ l.booking_group_id = LegacyBookingId
                           /\ l.state = "idea" /\ l.week_id = 3
    /\ \E b \in query_by_user(bookings) :
          b.state = "booked" /\ b.booking_group_id \in BookingIdPool
    /\ trips # {}
    /\ \E w \in query_by_user(weeks) : w.id > 3

\* ------------------------------------------------------------------------
\* Week blocking (Spec)
\* ------------------------------------------------------------------------
\* C20: after a full recalculation and after incremental re-blocking alike,
\* every stored Week has is_blocked = true exactly when some current Trip
\* satisfies trip.start <= week.end and trip.end >= week.start; re-blocking
\* clears the flag of a Week that no remaining Trip overlaps.
C20_BlockedIffTripOverlaps ==
    \A w \in weeks :
        w.is_blocked <=> \E t \in trips : /\ t.start_date <= w.end_date
                                          /\ t.end_date >= w.start_date

\* a trip blocks some of the recalculated weeks and not the others
C20_Witness ==
    /\ trips # {}
    /\ \E w \in weeks : w.id > 3 /\ w.is_blocked
    /\ \E w \in weeks : w.id > 3 /\ ~w.is_blocked

\* ------------------------------------------------------------------------
\* Week generation and re-blocking for any family.  Kid entities are
\* schemaless datastore records: calculate_weeks_for_user reads the school
\* dates with .get and skips a Kid that has none, so the stored family is
\* drawn from kids with every weekday as last day of school, first days of
\* school on both sides of a Week's end, and kids with a date missing.  No
\* Week is stored until the first recalculation.
\* ------------------------------------------------------------------------
\* day numbers go up to two weeks after the first possible Monday
MaxDay == 19

LastDayInputs == 0..6 \cup {None}
FirstDayInputs == {8, 11, 12, MaxDay, None}

Kid(id, last_day, first_day) ==
    [id |-> id, user_email |-> User,
     last_day_of_school |-> last_day, first_day_of_school |-> first_day]

\* a second kid of the family: none, one with both dates, one with neither
SiblingInputs == {{}, {Kid(2, 2, MaxDay + 4)}, {Kid(2, None, None)}}

FamilyInputs ==
    {{Kid(1, l, f)} \cup sib :
        l \in LastDayInputs, f \in FirstDayInputs, sib \in SiblingInputs}

\* (start_date, end_date) pairs of the trip forms: touching the first Week
\* on its first day, touching the second on its last, and a rejected pair
TripFormInputs == {<<4, 7>>, <<18, 21>>, <<16, 14>>}

\* the list calculate_weeks_for_user returns (the Weeks it created)
calculate_weeks_for_user(K, T, firstId) ==
    IF K = {} \/ earliest_last_day(K) = None \/ latest_first_day(K) = None
    THEN <<>>
    ELSE LET created == GenerateWeeks(first_monday(earliest_last_day(K)), 1,
                                      latest_first_day(K), firstId)
         IN  [i \in 1..Len(created) |->
                 IF \E t \in T : TripOverlapsWeek(t, created[i])
                 THEN [created[i] EXCEPT !.is_blocked = TRUE] ELSE created[i]]

\* a recalculation that reports an empty result as an error and stops
weeks_recalculate_Fatal(K, T, firstId) ==
    LET result == calculate_weeks_for_user(K, T, firstId)
    IN  [result |-> result,
         flashes |-> IF result # <<>> THEN <<"success">> ELSE <<"error">>,
         response |-> IF result # <<>> THEN "redirect" ELSE "abort"]

\* POST /weeks/recalculate: the categories of the messages it flashes (the
\* 'error' of calculate_weeks_for_user when kids exist but a bound is
\* missing, then 'success' or 'warning') and its response
weeks_recalculate(K, T, firstId) ==
    LET result == calculate_weeks_for_user(K, T, firstId)
    IN  [result |-> result,
         flashes |->
            (IF K # {} /\ (earliest_last_day(K) = None
                           \/ latest_first_day(K) = None)
             THEN <<"error">> ELSE <<>>)
            \o (IF result # <<>> THEN <<"success">> ELSE <<"warning">>),
         response |-> "redirect"]

\* POST /trips/<id>/update: ownership, validation, update_entity,
\* update_week_blocking
TripUpdate(id, start_date, end_date) ==
    /\ IF ~HasEntity(trips, id) \/ end_date < start_date
       THEN UNCHANGED <<trips, weeks>>
       ELSE /\ trips' = {IF t.id = id /\ t.user_email = User
                         THEN [t EXCEPT !.start_date = start_date,
                                        !.end_date = end_date]
                         ELSE t : t \in trips}
            /\ weeks' = (weeks \ query_by_user(weeks)) \cup
                   UpdateWeekBlocking(query_by_user(weeks), query_by_user(trips'))
    /\ UNCHANGED <<camps, extracted, kids, sessions, bookings, nextWeekUuid, procs, parents, calendar>>

\* POST /kids/<id>/delete: the Kid goes, its Bookings and the Weeks stay
KidDelete(id) ==
    /\ HasEntity(kids, id)
    /\ kids' = {k \in kids : k.id # id}
    /\ UNCHANGED <<camps, extracted, trips, weeks, sessions, bookings,
                   nextWeekUuid, procs, parents, calendar>>

InitWeeks ==
    /\ kids \in FamilyInputs
    /\ trips = {}
    /\ weeks = {}
    /\ nextWeekUuid = 1
    /\ sessions = InitSessions
    /\ bookings = {}
    /\ procs = [p \in {1, 2} |-> Idle]
    /\ parents = {}
    /\ calendar = {}
    /\ camps = InitCamps
    /\ extracted = <<>>

NextWeeks ==
    \/ WeeksRecalculate
    \/ \E id \in TripIds, d \in TripFormInputs : TripNew(id, d[1], d[2])
    \/ \E id \in TripIds, d \in TripFormInputs : TripUpdate(id, d[1], d[2])
    \/ \E id \in {t.id : t \in trips} : TripDelete(id)
    \/ \E id \in KidIds : KidDelete(id)
    \/ \E w \in WeekIds : QuickBooking(1, 1, w)

SpecWeeks == InitWeeks /\ [][NextWeeks]_vars

\* ------------------------------------------------------------------------
\* Claims about re-blocking and week generation
\* ------------------------------------------------------------------------
\* a request of the trip pages: each of them ends in update_week_blocking
ReblockingStep ==
    \/ \E id \in TripIds, d \in TripFormInputs : TripNew(id, d[1], d[2])
    \/ \E id \in TripIds, d \in TripFormInputs : TripUpdate(id, d[1], d[2])
    \/ \E id \in TripIds : TripDelete(id)

Unflagged(W) == {[w EXCEPT !.is_blocked = FALSE] : w \in W}

\* C21: the re-blocking after a trip is created, updated or deleted creates
\* and deletes no Week, changes no field of a Week other than is_blocked,
\* and creates, deletes and modifies no Booking; every Booking that referred
\* to a stored Week before refers to the same stored Week after.
C21_ReblockingFrame ==
    [][ReblockingStep =>
          /\ bookings' = bookings
          /\ Cardinality(weeks') = Cardinality(weeks)
          /\ Unflagged(weeks') = Unflagged(weeks)
          /\ \A b \in bookings : \A w \in weeks :
                b.week_id = w.id =>
                   \E v \in weeks' : /\ b.week_id = v.id
                                     /\ v.start_date = w.start_date
                                     /\ v.week_number = w.week_number]_vars

\* a Booking made before the trip refers to a Week the re-blocking flagged
C21_Witness ==
    /\ trips # {}
    /\ \E b \in bookings : \E w \in weeks :
          b.week_id = w.id /\ w.is_blocked

\* the Trips a family can have stored: any set of accepted trip forms
Trip(id, d) ==
    [id |-> id, user_email |-> User, start_date |-> d[1], end_date |-> d[2]]

TripSets ==
    {{}} \cup {{Trip(1, d)} : d \in {e \in TripFormInputs : e[2] >= e[1]}}
    \cup {{Trip(1, <<4, 7>>), Trip(2, <<18, 21>>)}}

\* C22: re-blocking is idempotent: whatever the Trips are, a second run of
\* update_week_blocking over the Weeks the first run left, with the Trips
\* unchanged, leaves every is_blocked as it is and writes no Week.
C22_ReblockingIdempotent ==
    \A T \in TripSets :
        LET first == UpdateWeekBlocking(query_by_user(weeks), T)
        IN  /\ UpdateWeekBlocking(first, T) = first
            /\ update_week_blocking_writes(first, T) = {}

\* the first run had something to write: a stored Week whose flag a Trip
\* changes, and another that a Trip's removal changes
C22_Witness ==
    /\ \E T \in TripSets : \E w \in update_week_blocking_writes(query_by_user(weeks), T) :
          ~w.is_blocked
    /\ \E w \in update_week_blocking_writes(query_by_user(weeks), {}) : w.is_blocked

\* the Weeks of the family stored after POST /weeks/recalculate
AfterRecalculation ==
    CalculateWeeks(query_by_user(kids), query_by_user(trips),
                   query_by_user(weeks), nextWeekUuid)

\* the list that request's call of calculate_weeks_for_user returns
Generated ==
    calculate_weeks_for_user(query_by_user(kids), query_by_user(trips),
                             nextWeekUuid)

\* C23: a full recalculation deletes every existing Week of the family and
\* regenerates: whatever the kids' school dates are, no Week stored before
\* the request is stored after it, and the Weeks stored after it are exactly
\* those of the list the request generated.
C23_RecalculationReplacesAll ==
    /\ AfterRecalculation \cap query_by_user(weeks) = {}
    /\ AfterRecalculation = SeqToSet(Generated)

\* the family lacks what week generation needs
InsufficientData(K) ==
    \/ K = {}
    \/ \A k \in K : k.last_day_of_school = None
    \/ \A k \in K : k.first_day_of_school = None

\* C24: when the family has no kids, or no kid has a last_day_of_school, or
\* no kid has a first_day_of_school, week generation returns an empty result
\* and creates no Week; the request reports it with a warning and completes
\* normally (it is not a fatal error).
C24_InsufficientDataIsWarning ==
    LET K == query_by_user(kids)
        r == weeks_recalculate(K, query_by_user(trips), nextWeekUuid)
    IN  InsufficientData(K) =>
           /\ r.response = "redirect"
           /\ r.result = <<>>
           /\ AfterRecalculation \ weeks = {}
           /\ \E i \in 1..Len(r.flashes) : r.flashes[i] = "warning"

\* kids are stored, none of them has a last day of school, and Weeks of an
\* earlier generation exist
C24_Witness ==
    /\ query_by_user(kids) # {}
    /\ \A k \in query_by_user(kids) : k.last_day_of_school = None
    /\ \E k \in query_by_user(kids) : k.first_day_of_school # None
    /\ weeks # {}

\* the minimum last_day_of_school over the kids that have one
MinLastDay(K) ==
    CHOOSE d \in {k.last_day_of_school : k \in K} \ {None} :
        \A k \in K : k.last_day_of_school # None => d <= k.last_day_of_school

\* C25: the first generated Week starts on the first Monday strictly after
\* the minimum last_day_of_school: between 1 and 7 days after it, and
\* exactly 7 days after it when that day is itself a Monday.
C25_FirstWeekAfterLastDay ==
    Generated # <<>> =>
        LET last == MinLastDay(query_by_user(kids))
            gap == Generated[1].start_date - last
        IN  /\ weekday(Generated[1].start_date) = 0
            /\ gap \in 1..7
            /\ weekday(last) = 0 => gap = 7

\* school ended on a Monday and the first stored Week starts a week later
C25_Witness ==
    /\ Generated # <<>>
    /\ weekday(MinLastDay(query_by_user(kids))) = 0
    /\ \E w \in query_by_user(weeks) :
          /\ w.week_number = 1
          /\ w.start_date = MinLastDay(query_by_user(kids)) + 7

\* the maximum first_day_of_school over the kids that have one
MaxFirstDay(K) ==
    CHOOSE d \in {k.first_day_of_school : k \in K} \ {None} :
        \A k \in K : k.first_day_of_school # None => d >= k.first_day_of_school

\* the first Monday strictly after a day
MondayAfter(d) == CHOOSE m \in (d + 1)..(d + 7) : weekday(m) = 0

\* the days a generated Week can start on
Days == 0..(MaxDay + 7)

\* C26: the generator never emits a Week whose end_date is on or after the
\* maximum first_day_of_school, and it emits every Monday-start window,
\* from the first Monday on, whose end_date is strictly before that bound.
C26_WeeksBeforeFirstDay ==
    LET K == query_by_user(kids)
    IN  ~InsufficientData(K) =>
           /\ \A i \in 1..Len(Generated) :
                 Generated[i].end_date < MaxFirstDay(K)
           /\ \A m \in Days :
                 (/\ weekday(m) = 0
                  /\ m >= MondayAfter(MinLastDay(K))
                  /\ m + 4 < MaxFirstDay(K))
                 => \E i \in 1..Len(Generated) :
                       /\ Generated[i].start_date = m
                       /\ Generated[i].end_date = m + 4

\* two Weeks are stored, the second ending the day before school starts
C26_Witness ==
    /\ ~InsufficientData(query_by_user(kids))
    /\ \E w \in query_by_user(weeks) :
          /\ w.week_number = 2
          /\ w.end_date = MaxFirstDay(query_by_user(kids)) - 1

\* Monday to Friday Weeks numbered 1..n, one per consecutive Monday
WellFormedWeeks(W) ==
    /\ \A w \in W : weekday(w.start_date) = 0 /\ w.end_date = w.start_date + 4
    /\ {w.week_number : w \in W} = 1..Cardinality(W)
    /\ \A w, v \in W :
          v.week_number = w.week_number + 1 => v.start_date = w.start_date + 7

\* C27: after a full recalculation every stored Week starts on a Monday and
\* ends exactly 4 days later, the week_numbers are exactly 1..n without gap
\* or duplicate, and Week k+1 starts exactly 7 days after Week k.
C27_StoredWeeksWellFormed ==
    /\ WellFormedWeeks(AfterRecalculation)
    /\ WellFormedWeeks(query_by_user(weeks))

\* two Weeks stored by a recalculation that replaced earlier ones
C27_Witness ==
    \E w, v \in query_by_user(weeks) :
        /\ w.week_number = 1 /\ v.week_number = 2
        /\ w.id > 2 /\ v.id > 2

\* ------------------------------------------------------------------------
\* Camps, sessions and the page parser (src/camps.py, src/ai_parser.py)
\* ------------------------------------------------------------------------
\* session dates run over two weeks: day 0 is a Monday, day 11 the Friday of
\* the week after, days 12 and 13 the weekend before the Week of day 14
MaxSessionDay == 13
\* Sessions stored at one time
MaxSessions == 1

\* a date as JSON carries it: no value (null, '' or no key), a string that
\* is not a date, or the '%Y-%m-%d' string of a day
NoString == <<"none">>
Malformed == <<"text">>
DateString(d) == <<"date", d>>
DateStrings ==
    {NoString, Malformed} \cup {DateString(d) : d \in 0..MaxSessionDay}

\* datetime.strptime(s, '%Y-%m-%d'): the day, or ValueError
ValueError == -98
strptime(s) == IF s[1] = "date" THEN s[2] ELSE ValueError

\* math.ceil(n / 5)
Ceil5(n) == -((-n) \div 5)

\* a duration that counts every calendar day of any span
calculate_duration_weeks_CalendarDays(start_date, end_date) ==
    IF start_date = None \/ end_date = None
    THEN 1
    ELSE Ceil5(end_date - start_date + 1)

\* a duration that rounds down
calculate_duration_weeks_RoundsDown(start_date, end_date) ==
    IF start_date = None \/ end_date = None
    THEN 1
    ELSE (end_date - start_date + 1) \div 5

\* calculate_duration_weeks (camps.py): business days of a Monday-to-Friday
\* span, calendar days otherwise, in weeks of 5 days rounded up
calculate_duration_weeks(start_date, end_date) ==
    IF start_date = None \/ end_date = None
    THEN 1
    ELSE LET total_days == end_date - start_date + 1
             business_days ==
                 Cardinality({d \in start_date..end_date : weekday(d) < 5})
         IN  IF weekday(start_date) = 0 /\ weekday(end_date) = 4
             THEN Ceil5(business_days)
             ELSE Ceil5(total_days)

\* camp days that count every calendar day
camp_days_AllDays(start_date, end_date) ==
    end_date - start_date + 1

\* the camp_days of calculate_session_durations
camp_days(start_date, end_date) ==
    LET total_days == end_date - start_date + 1
        full_weeks == total_days \div 7
        remaining_days == total_days % 7
    IN  IF weekday(start_date) = 0 /\ weekday(end_date) = 4 /\ total_days >= 5
        THEN full_weeks * 5 + Min2(remaining_days, 5)
        ELSE total_days

\* a dict key that is not there ('duration_weeks' not in session), as
\* opposed to a key whose value is None
Absent == -97

\* one session of calculate_session_durations
session_duration(session) ==
    LET default == IF session.duration_weeks \in {Absent, None}
                   THEN [session EXCEPT !.duration_weeks = 1] ELSE session
        start_date == strptime(session.session_start_date)
        end_date == strptime(session.session_end_date)
    IN  IF session.session_start_date = NoString
           \/ session.session_end_date = NoString
        THEN default
        ELSE IF start_date = ValueError \/ end_date = ValueError
        THEN default
        ELSE [session EXCEPT !.duration_weeks =
                 Max2(1, Ceil5(camp_days(start_date, end_date)))]

\* calculate_session_durations (ai_parser.py): every session in place
calculate_session_durations(data) ==
    [i \in 1..Len(data) |-> session_duration(data[i])]

\* what the page parser hands over for one session: dates as strings and
\* a duration_weeks that is missing, null or already given
ParsedSessions ==
    [session_start_date : DateStrings, session_end_date : DateStrings,
     duration_weeks : {Absent, None, 3}]

\* batches of two sessions: the first with a malformed date, the second
\* well-formed
ParsedBatches ==
    {<<[session_start_date |-> Malformed, session_end_date |-> e,
        duration_weeks |-> d],
       [session_start_date |-> DateString(7),
        session_end_date |-> DateString(11), duration_weeks |-> Absent]>> :
        e \in {Malformed, DateString(9)}, d \in {Absent, 3}}

\* POST /camps/parse-url: parse_session_url extracts the data and runs
\* calculate_session_durations over it
ParseUrl(data) ==
    /\ extracted' = calculate_session_durations(data)
    /\ UNCHANGED <<camps, kids, trips, weeks, sessions, bookings,
                   nextWeekUuid, procs, parents, calendar>>

\* the date parse of session_bulk_create: None when absent or malformed
parse_date(s) ==
    IF s = NoString \/ strptime(s) = ValueError THEN None ELSE strptime(s)

\* the Session session_bulk_create stores for one session_data
bulk_session(id, camp_id, session_data) ==
    LET session_start_date == parse_date(session_data.session_start_date)
        session_end_date == parse_date(session_data.session_end_date)
    IN  [id |-> id, user_email |-> User, camp_id |-> camp_id,
         duration_weeks |->
            IF session_start_date # None /\ session_end_date # None
            THEN calculate_duration_weeks(session_start_date, session_end_date)
            ELSE IF session_data.duration_weeks = Absent THEN 1
                 ELSE session_data.duration_weeks,
         session_start_date |-> session_start_date,
         session_end_date |-> session_end_date]

SessionIdPool == 1..MaxSessions

\* POST /camps/<camp_id>/sessions/bulk with a body of one session (or none)
SessionBulkCreate(camp_id, data) ==
    /\ Cardinality(sessions) + Len(data) <= MaxSessions
    /\ IF ~HasEntity(camps, camp_id) \/ data = <<>>
       THEN UNCHANGED sessions
       ELSE sessions' = sessions \cup
               {bulk_session(
                   CHOOSE id \in SessionIdPool :
                       /\ id \notin {s.id : s \in sessions}
                       /\ \A j \in SessionIdPool :
                             j \notin {s.id : s \in sessions} => id <= j,
                   camp_id, data[1])}
    /\ UNCHANGED <<camps, extracted, kids, trips, weeks, bookings,
                   nextWeekUuid, procs, parents, calendar>>

\* POST /camps/sessions/<id>/delete: the Session goes with its Bookings and,
\* with credentials, their calendar events; Bookings need a confirmation
session_bookings_Booked(id) ==
    {b \in query_by_user(bookings) : b.session_id = id /\ b.state = "booked"}

\* the Bookings session_delete looks up: every Booking of the user whose
\* session_id is the Session's key
session_bookings(id) ==
    {b \in query_by_user(bookings) : b.session_id = id}

\* session_delete: the confirmation page is rendered while the Session has
\* Bookings and confirm=1 was not sent; otherwise each Booking is deleted
\* (after its calendar event) and then the Session
session_delete(id, confirmed, credentials) ==
    LET its == session_bookings(id)
    IN  IF ~HasEntity(sessions, id)
        THEN [sessions |-> sessions, bookings |-> bookings,
              calendar |-> calendar, response |-> "not_found"]
        ELSE IF its # {} /\ ~confirmed
        THEN [sessions |-> sessions, bookings |-> bookings,
              calendar |-> calendar, response |-> "confirm"]
        ELSE [sessions |-> {s \in sessions : s.id # id},
              bookings |-> bookings \ its,
              calendar |-> calendar \
                  {b.calendar_event_id : b \in
                      {c \in its : /\ c.state = "booked"
                                   /\ c.calendar_event_id # None
                                   /\ credentials}},
              response |-> "deleted"]

SessionDelete(id, confirmed, credentials) ==
    LET r == session_delete(id, confirmed, credentials)
    IN  /\ sessions' = r.sessions
        /\ bookings' = r.bookings
        /\ calendar' = r.calendar
        /\ UNCHANGED <<camps, extracted, kids, trips, weeks, nextWeekUuid,
                       procs, parents>>

\* POST /camps/new
CampNew(id) ==
    /\ id \notin {c.id : c \in camps}
    /\ camps' = camps \cup {[id |-> id, user_email |-> User]}
    /\ UNCHANGED <<extracted, kids, trips, weeks, sessions, bookings,
                   nextWeekUuid, procs, parents, calendar>>

\* POST /camps/<id>/delete: refused while the Camp has Sessions
camp_delete(id) ==
    IF HasEntity(camps, id)
          /\ {s \in query_by_user(sessions) : s.camp_id = id} = {}
    THEN {c \in camps : c.id # id}
    ELSE camps

CampDelete(id) ==
    /\ camps' = camp_delete(id)
    /\ UNCHANGED <<extracted, kids, trips, weeks, sessions, bookings,
                   nextWeekUuid, procs, parents, calendar>>

\* a matcher that wants more than a shared boundary day
include_session_Strict(session_entity, week) ==
    \/ session_entity.session_start_date = None
    \/ session_entity.session_end_date = None
    \/ /\ session_entity.session_start_date < week.end_date
       /\ session_entity.session_end_date > week.start_date

\* include_session of api_sessions_for_week
include_session(session_entity, week) ==
    \/ session_entity.session_start_date = None
    \/ session_entity.session_end_date = None
    \/ /\ session_entity.session_start_date <= week.end_date
       /\ session_entity.session_end_date >= week.start_date

\* GET /api/sessions-for-week: the status and the ids of the sessions in
\* the response, collected camp by camp; week_id None is a missing parameter
api_sessions_for_week(week_id) ==
    IF week_id = None
    THEN [status |-> 400, sessions |-> {}]
    ELSE IF ~HasEntity(weeks, week_id)
    THEN [status |-> 404, sessions |-> {}]
    ELSE [status |-> 200,
          sessions |->
             {s.id : s \in
                {t \in query_by_user(sessions) :
                    /\ \E camp \in query_by_user(camps) : t.camp_id = camp.id
                    /\ include_session(t, GetEntity(weeks, week_id))}}]

\* the bodies sent to the bulk endpoint: spans ending the day before the
\* first Week, sharing its first and its last day, lying between two Weeks,
\* Monday-to-Friday over one and two weeks, 3 and 6 days, reversed spans,
\* and missing or malformed dates with and without a duration
BulkDateInputs ==
    {<<0, 6>>, <<3, 7>>, <<7, 11>>, <<11, 13>>, <<12, 13>>, <<0, 11>>,
     <<8, 10>>, <<7, 12>>, <<10, 8>>, <<7, 4>>}

BulkInputs ==
    {[session_start_date |-> DateString(d[1]),
      session_end_date |-> DateString(d[2]),
      duration_weeks |-> Absent] : d \in BulkDateInputs}
    \cup [session_start_date : {NoString, Malformed, DateString(9)},
          session_end_date : {NoString, DateString(9)},
          duration_weeks : {Absent, None, 3}]

CampIds == {1}
\* one Camp and no Session yet; the Weeks of the two kids (Mondays 7, 14
\* and 21) and a Week of another account
InitSessionsPage ==
    /\ kids = InitKids
    /\ trips = {}
    /\ weeks = CalculateWeeks(InitKids, {}, {}, 1) \cup {ForeignWeek}
    /\ nextWeekUuid = Cardinality(query_by_user(weeks)) + 1
    /\ sessions = {}
    /\ bookings = {}
    /\ procs = [p \in {1, 2} |-> Idle]
    /\ parents = {}
    /\ calendar = {}
    /\ camps = InitCamps
    /\ extracted = <<>>

NextCamps ==
    \/ \E s \in ParsedSessions : ParseUrl(<<s>>)
    \/ \E b \in ParsedBatches : ParseUrl(b)
    \/ \E c \in CampIds \cup {UnknownId}, s \in BulkInputs :
          SessionBulkCreate(c, <<s>>)
    \/ \E c \in CampIds : SessionBulkCreate(c, <<>>)
    \/ \E id \in SessionIdPool : SessionDelete(id, FALSE, FALSE)
    \/ \E id \in CampIds : CampNew(id)
    \/ \E id \in CampIds : CampDelete(id)

SpecCamps == InitSessionsPage /\ [][NextCamps]_vars

\* ------------------------------------------------------------------------
\* Claims about the session matcher and the duration calculations
\* ------------------------------------------------------------------------
\* C28: the session matcher reports a session as relevant to a week if and
\* only if one of the session's dates is absent, or session_start <=
\* week_end and session_end >= week_start.  A session that shares exactly
\* one boundary day with the week matches; one that ends the day before the
\* week starts, or starts the day after it ends, does not (no buffer days).
C28_MatcherIsInclusiveOverlap ==
    \A w \in query_by_user(weeks) : \A s \in query_by_user(sessions) :
        LET r == api_sessions_for_week(w.id)
            dated == s.session_start_date # None /\ s.session_end_date # None
        IN  /\ r.status = 200
            /\ s.id \in r.sessions <=>
                  \/ ~dated
                  \/ /\ s.session_start_date <= w.end_date
                     /\ s.session_end_date >= w.start_date
            /\ (dated /\ s.session_end_date = w.start_date
                      /\ s.session_start_date < w.start_date)
                  => s.id \in r.sessions
            /\ (dated /\ s.session_start_date = w.end_date
                      /\ s.session_end_date > w.end_date)
                  => s.id \in r.sessions
            /\ (dated /\ s.session_end_date = w.start_date - 1)
                  => s.id \notin r.sessions
            /\ (dated /\ s.session_start_date = w.end_date + 1)
                  => s.id \notin r.sessions

\* a stored session starts on the last day of one Week and ends the day
\* before the next Week starts: reported for the first, not for the second
C28_Witness ==
    \E s \in query_by_user(sessions) : \E w, v \in query_by_user(weeks) :
        /\ s.session_start_date = w.end_date
        /\ s.session_end_date = v.start_date - 1
        /\ s.session_end_date > w.end_date
        /\ s.id \in api_sessions_for_week(w.id).sessions
        /\ s.id \notin api_sessions_for_week(v.id).sessions

\* a parsed session whose two dates are dates
Dated(session) ==
    /\ session.session_start_date[1] = "date"
    /\ session.session_end_date[1] = "date"

\* C29: for every pair of dates with end >= start the computed
\* duration_weeks is an integer >= 1, both in the page parser's calculation
\* (calculate_session_durations) and in calculate_duration_weeks.
C29_DurationAtLeastOne ==
    /\ \A i \in 1..Len(extracted) :
          (/\ Dated(extracted[i])
           /\ extracted[i].session_end_date[2]
                 >= extracted[i].session_start_date[2])
          => /\ extracted[i].duration_weeks \in Int
             /\ extracted[i].duration_weeks >= 1
    /\ \A s \in query_by_user(sessions) :
          (/\ s.session_start_date # None /\ s.session_end_date # None
           /\ s.session_end_date >= s.session_start_date)
          => /\ s.duration_weeks \in Int
             /\ s.duration_weeks >= 1
    /\ \A start_date, end_date \in 0..MaxSessionDay :
          end_date >= start_date
          => /\ calculate_duration_weeks(start_date, end_date) \in Int
             /\ calculate_duration_weeks(start_date, end_date) >= 1

\* a one-day session came out of the parser and a three-day session was
\* stored by the bulk endpoint, each with duration 1
C29_Witness ==
    /\ \E i \in 1..Len(extracted) :
          /\ Dated(extracted[i])
          /\ extracted[i].session_end_date = extracted[i].session_start_date
          /\ extracted[i].duration_weeks = 1
    /\ \E s \in query_by_user(sessions) :
          /\ s.session_start_date # None /\ s.session_end_date # None
          /\ s.session_end_date = s.session_start_date + 2
          /\ s.duration_weeks = 1

\* ceil(n / k) for n >= 0
Ceil(n, k) == CHOOSE q \in 0..n : q * k >= n /\ (q - 1) * k < n

\* C30: with total_days = end - start + 1, a span that starts on a Monday,
\* ends on a Friday and has total_days >= 5 gets duration_weeks =
\* ceil((5 * (total_days div 7) + min(total_days mod 7, 5)) / 5): 1 for a
\* 5-day Monday-to-Friday span, 2 for two Monday-to-Friday blocks with the
\* weekend between; any other span gets ceil(total_days / 5) with every
\* calendar day counted: 1 for 3 days, 2 for 6 days.
C30_DurationFormula ==
    \A i \in 1..Len(extracted) :
        LET s == extracted[i]
            start == s.session_start_date[2]
            end == s.session_end_date[2]
            total_days == end - start + 1
            weekdayRun == /\ weekday(start) = 0 /\ weekday(end) = 4
                          /\ total_days >= 5
        IN  (Dated(s) /\ end >= start) =>
               /\ weekdayRun =>
                     s.duration_weeks =
                        Ceil(5 * (total_days \div 7)
                             + Min2(total_days % 7, 5), 5)
               /\ ~weekdayRun => s.duration_weeks = Ceil(total_days, 5)
               /\ (weekdayRun /\ total_days = 5) => s.duration_weeks = 1
               /\ (weekdayRun /\ total_days = 12) => s.duration_weeks = 2
               /\ (~weekdayRun /\ total_days = 3) => s.duration_weeks = 1
               /\ (~weekdayRun /\ total_days = 6) => s.duration_weeks = 2

\* the parser returned a session of two Monday-to-Friday blocks (12 days
\* from a Monday to the Friday of the week after) with duration 2
C30_Witness ==
    \E i \in 1..Len(extracted) :
        /\ Dated(extracted[i])
        /\ weekday(extracted[i].session_start_date[2]) = 0
        /\ extracted[i].session_end_date[2]
              = extracted[i].session_start_date[2] + 11
        /\ extracted[i].duration_weeks = 2

\* ------------------------------------------------------------------------
\* Claims about missing and malformed session dates
\* ------------------------------------------------------------------------
\* the duration a calculation leaves for a session without one of its dates
DefaultedDuration(given) == IF given \in {Absent, None} THEN 1 ELSE given

\* C31: when a session's start date or end date is missing, the duration
\* calculation sets duration_weeks to 1 if it is absent or None and leaves
\* an already-set duration_weeks unchanged, and it never fails: in the page
\* parser, in calculate_duration_weeks, and in the bulk endpoint.
C31_MissingDateDefaultsToOne ==
    /\ \A s \in ParsedSessions :
          (s.session_start_date = NoString \/ s.session_end_date = NoString)
          => /\ Len(calculate_session_durations(<<s>>)) = 1
             /\ calculate_session_durations(<<s>>)[1].duration_weeks
                   = DefaultedDuration(s.duration_weeks)
    /\ \A d \in 0..MaxSessionDay :
          /\ calculate_duration_weeks(None, d) = 1
          /\ calculate_duration_weeks(d, None) = 1
          /\ calculate_duration_weeks(None, None) = 1
    /\ \A camp \in query_by_user(camps) : \A s \in BulkInputs :
          (s.session_start_date = NoString \/ s.session_end_date = NoString)
          => bulk_session(1, camp.id, s).duration_weeks
                = DefaultedDuration(s.duration_weeks)

\* a parsed session with both date strings given, one of them not a date
HasMalformedDate(session) ==
    /\ Malformed \in {session.session_start_date, session.session_end_date}
    /\ NoString \notin {session.session_start_date, session.session_end_date}

\* C32: when a session date string is malformed the duration calculation
\* does not raise: the error is caught, duration_weeks falls back to 1, and
\* the remaining sessions of the batch are still processed (every session
\* of the returned batch has a duration).
C32_MalformedDateFallsBackToOne ==
    \A i \in 1..Len(extracted) :
        /\ extracted[i].duration_weeks \notin {Absent, None}
        /\ HasMalformedDate(extracted[i]) => extracted[i].duration_weeks = 1

\* ------------------------------------------------------------------------
\* Claims about the legacy repair, session deletion and booked slots
\* ------------------------------------------------------------------------
\* C33: the legacy-repair pass is idempotent and non-destructive: it sets
\* booking_group_id to the Booking's own id, week_of_session to 1 and
\* total_weeks to 1 only where the field is missing and changes no field
\* that is populated; a second run changes no field of any Booking and
\* writes no Booking.
C33_CleanupIdempotent ==
    /\ Cardinality(bookings_cleanup) = Cardinality(bookings)
    /\ \A b \in query_by_user(bookings) :
          \E a \in bookings_cleanup :
             /\ a.id = b.id
             /\ a.booking_group_id =
                   IF b.booking_group_id = None THEN b.id
                   ELSE b.booking_group_id
             /\ a.week_of_session =
                   IF b.week_of_session = None THEN 1 ELSE b.week_of_session
             /\ a.total_weeks =
                   IF b.total_weeks = None THEN 1 ELSE b.total_weeks
             /\ [a EXCEPT !.booking_group_id = None, !.week_of_session = None,
                          !.total_weeks = None]
                   = [b EXCEPT !.booking_group_id = None,
                               !.week_of_session = None, !.total_weeks = None]
             /\ cleanup_booking(a) = a
             /\ ~needs_update(a)
    /\ bookings_cleanup \ query_by_user(bookings_cleanup)
          = bookings \ query_by_user(bookings)

\* a legacy Booking without the grouping fields is stored next to a member
\* of a two-week group
C33_Witness ==
    /\ \E b \in query_by_user(bookings) : needs_update(b)
    /\ \E b \in query_by_user(bookings) :
          b.week_of_session = 2 /\ b.total_weeks = 2

\* ------------------------------------------------------------------------
\* Sessions pages and booking creation together: one Camp, Sessions created,
\* edited and deleted while Bookings are made for them
\* ------------------------------------------------------------------------
\* what the session form submits: int(request.form.get('duration_weeks', 1))
\* takes any integer; each of the two dates is optional
SessionFormInputs ==
    [duration_weeks : {-1, 0, 1, 2},
     dates : {<<None, None>>, <<7, 11>>, <<7, None>>}]

\* the key of a new Session: a uuid4, never one that a stored Session has
\* or that a stored Booking still refers to
FreshSessionIds ==
    SessionIdPool \ ({s.id : s \in sessions} \cup {b.session_id : b \in bookings})

\* the Session session_new and session_update store for a form
form_session(id, camp_id, form) ==
    [id |-> id, user_email |-> User, camp_id |-> camp_id,
     duration_weeks |-> form.duration_weeks,
     session_start_date |-> form.dates[1],
     session_end_date |-> form.dates[2]]

\* POST /camps/<camp_id>/sessions/new
SessionNew(camp_id, form) ==
    /\ FreshSessionIds # {}
    /\ IF ~HasEntity(camps, camp_id)
       THEN UNCHANGED sessions
       ELSE sessions' = sessions \cup
               {form_session(CHOOSE id \in FreshSessionIds :
                                \A j \in FreshSessionIds : id <= j,
                             camp_id, form)}
    /\ UNCHANGED <<camps, extracted, kids, trips, weeks, bookings,
                   nextWeekUuid, procs, parents, calendar>>

\* POST /camps/sessions/<id>/update
SessionUpdate(id, form) ==
    /\ IF ~HasEntity(sessions, id)
       THEN UNCHANGED sessions
       ELSE sessions' = {IF s.id = id /\ s.user_email = User
                         THEN form_session(id, s.camp_id, form) ELSE s :
                            s \in sessions}
    /\ UNCHANGED <<camps, extracted, kids, trips, weeks, bookings,
                   nextWeekUuid, procs, parents, calendar>>

\* bodies of the bulk endpoint with a duration that is used as sent
BulkDurationInputs ==
    {[session_start_date |-> NoString, session_end_date |-> NoString,
      duration_weeks |-> d] : d \in {Absent, 0, 3}}

InitSessionsAndBookings ==
    /\ kids = InitKids
    /\ trips = {}
    /\ weeks = CalculateWeeks(InitKids, {}, {}, 1)
    /\ nextWeekUuid = Cardinality(weeks) + 1
    /\ sessions = {}
    /\ bookings = {}
    /\ procs = [p \in {1, 2} |-> Idle]
    /\ parents = {}
    /\ calendar = {}
    /\ camps = InitCamps
    /\ extracted = <<>>

NextSessions ==
    \/ \E c \in CampIds \cup {UnknownId}, f \in SessionFormInputs :
          SessionNew(c, f)
    \/ \E id \in SessionIdPool, f \in SessionFormInputs : SessionUpdate(id, f)
    \/ \E c \in CampIds, s \in BulkDurationInputs : SessionBulkCreate(c, <<s>>)
    \/ \E id \in SessionIdPool, confirmed \in BOOLEAN :
          SessionDelete(id, confirmed, FALSE)
    \/ \E id \in CampIds : CampNew(id)
    \/ \E id \in CampIds : CampDelete(id)
    \/ \E k \in KidIds, s \in SessionIdPool, w \in WeekIds, st \in {"idea", "booked"} :
          BookingNew(k, s, w, st, 0)
    \/ \E k \in KidIds, s \in SessionIdPool, w \in WeekIds : QuickBooking(k, s, w)
    \/ \E id \in BookingIds : BookingDelete(id, FALSE)

SpecSessions == InitSessionsAndBookings /\ [][NextSessions]_vars

\* ------------------------------------------------------------------------
\* C34: deleting a Session that has Bookings needs the confirmation: without
\* it nothing is deleted, with it every Booking of the Session goes together
\* with the Session, so every stored Booking of the user refers to a stored
\* Session; and a Camp that still has Sessions is not deleted
\* ------------------------------------------------------------------------
C34_SessionDeleteCascades ==
    /\ \A b \in query_by_user(bookings) : HasEntity(sessions, b.session_id)
    /\ \A id \in SessionIdPool, credentials \in BOOLEAN :
          /\ session_bookings(id) # {} =>
                LET r == session_delete(id, FALSE, credentials)
                IN  /\ r.sessions = sessions
                    /\ r.bookings = bookings
                    /\ r.calendar = calendar
          /\ HasEntity(sessions, id) =>
                LET r == session_delete(id, TRUE, credentials)
                IN  /\ ~\E s \in r.sessions : s.id = id
                    /\ ~\E b \in r.bookings : b.session_id = id
                    /\ r.bookings = {b \in bookings : b.session_id # id}
    /\ \A c \in query_by_user(camps) :
          (\E s \in query_by_user(sessions) : s.camp_id = c.id) =>
             camp_delete(c.id) = camps

\* a stored Session with a Booking, in a Camp of the user
C34_Witness ==
    \E s \in query_by_user(sessions) :
       /\ session_bookings(s.id) # {}
       /\ HasEntity(camps, s.camp_id)
       /\ session_delete(s.id, TRUE, FALSE).bookings # bookings

\* ------------------------------------------------------------------------
\* C35: a booked Booking is the only Booking, of any state, of its kid and
\* week: a creation is refused on a slot that holds a booked Booking, and a
\* creation as booked or a promotion to booked is refused on a slot that
\* holds any other Booking
\* ------------------------------------------------------------------------
C35_BookedIsAlone ==
    /\ \A b \in bookings : b.state = "booked" =>
          \A other \in bookings : SameSlot(other, b) => other = b
    /\ \A k \in KidIds, s \in SessionIds, w \in WeekIds :
          /\ \A st \in valid_states :
                LET r == booking_new(k, s, w, st)
                IN  Accepted(r.outcome) =>
                       \A n \in SeqToSet(r.needed) :
                          \A b \in existing_bookings(k, n.id) :
                             b.state # "booked" /\ st # "booked"
          /\ LET q == api_quick_booking(k, s, w)
             IN  Accepted(q.outcome) =>
                    \A n \in SeqToSet(q.needed) :
                       \A b \in existing_bookings(k, n.id) : b.state # "booked"
    /\ \A b \in bookings :
          booking_change_state(b.id, "booked", FALSE, NoEvents(b.id)).outcome
                = "changed" =>
             \A g \in group_bookings(b) :
                \A other \in bookings : SameSlot(other, g) => other = g

\* a booked Booking next to a Booking of another slot: both creation paths
\* are refused on the booked slot, creation as booked and the promotion on
\* the other one
C35_Witness ==
    \E b \in bookings, o \in bookings :
       /\ b.state = "booked" /\ o.state # "booked" /\ o.kid_id = b.kid_id
       /\ \E s \in SessionIds :
             /\ booking_new(b.kid_id, s, b.week_id, "idea").outcome = "hard_conflict"
             /\ api_quick_booking(b.kid_id, s, b.week_id).outcome = "hard_conflict"
             /\ booking_new(b.kid_id, s, o.week_id, "booked").outcome = "conflict"

\* ------------------------------------------------------------------------
\* Concurrent requests of the trip pages.  Each request writes its Trip and
\* then runs update_week_blocking, which is not a transaction: it queries
\* the Weeks, queries the Trips, and in its loop puts every Week whose flag
\* differs from the one it computed from what it read.  Requests of two
\* workers interleave between these datastore calls.
\* ------------------------------------------------------------------------
MaxRaceTrips == 2
RaceTripIds == 1..MaxRaceTrips

\* a request inside update_week_blocking: W and T are what its two queries
\* returned, todo the keys of the Weeks its loop has not reached
InPass(pc, W, T, todo) ==
    [pc |-> pc, uuids |-> {}, writes |-> {}, W |-> W, T |-> T, todo |-> todo]

\* trip_new up to create_entity
TripNewWrite(p, start_date, end_date) ==
    /\ procs[p].pc = "idle"
    /\ end_date >= start_date
    /\ \E id \in RaceTripIds :
          /\ id \notin {t.id : t \in trips}
          /\ \A j \in RaceTripIds : j < id => j \in {t.id : t \in trips}
          /\ trips' = trips \cup {Trip(id, <<start_date, end_date>>)}
    /\ procs' = [procs EXCEPT ![p] = InPass("weeks", {}, {}, {})]
    /\ UNCHANGED <<camps, extracted, kids, weeks, sessions, bookings,
                   nextWeekUuid, parents, calendar>>

\* trip_update up to update_entity
TripUpdateWrite(p, id, start_date, end_date) ==
    /\ procs[p].pc = "idle"
    /\ HasEntity(trips, id)
    /\ end_date >= start_date
    /\ trips' = {IF t.id = id /\ t.user_email = User
                 THEN [t EXCEPT !.start_date = start_date,
                                !.end_date = end_date]
                 ELSE t : t \in trips}
    /\ procs' = [procs EXCEPT ![p] = InPass("weeks", {}, {}, {})]
    /\ UNCHANGED <<camps, extracted, kids, weeks, sessions, bookings,
                   nextWeekUuid, parents, calendar>>

\* trip_delete up to delete_entity
TripDeleteWrite(p, id) ==
    /\ procs[p].pc = "idle"
    /\ HasEntity(trips, id)
    /\ trips' = {t \in trips : t.id # id}
    /\ procs' = [procs EXCEPT ![p] = InPass("weeks", {}, {}, {})]
    /\ UNCHANGED <<camps, extracted, kids, weeks, sessions, bookings,
                   nextWeekUuid, parents, calendar>>

\* weeks = query_by_user(client, 'Week', user_email)
PassReadWeeks(p) ==
    /\ procs[p].pc = "weeks"
    /\ procs' = [procs EXCEPT ![p] =
           InPass("trips", query_by_user(weeks), {}, {})]
    /\ UNCHANGED <<camps, extracted, kids, trips, weeks, sessions, bookings,
                   nextWeekUuid, parents, calendar>>

\* trips = list(query_by_user(client, 'Trip', user_email))
PassReadTrips(p) ==
    /\ procs[p].pc = "trips"
    /\ procs' = [procs EXCEPT ![p] =
           IF procs[p].W = {} THEN Idle
           ELSE InPass("loop", procs[p].W, query_by_user(trips),
                       {w.id : w \in procs[p].W})]
    /\ UNCHANGED <<camps, extracted, kids, trips, weeks, sessions, bookings,
                   nextWeekUuid, parents, calendar>>

\* one round of "for week in weeks": the flag is computed from the Trips
\* read, compared with the flag of the Week read, and update_entity puts
\* the Week read with the new flag when they differ
PassLoop(p) ==
    /\ procs[p].pc = "loop"
    /\ LET id == CHOOSE i \in procs[p].todo : \A j \in procs[p].todo : i <= j
           week == CHOOSE w \in procs[p].W : w.id = id
           is_blocked == \E t \in procs[p].T : TripOverlapsWeek(t, week)
           left == procs[p].todo \ {id}
       IN  /\ IF week.is_blocked # is_blocked
              THEN weeks' = {w \in weeks : w.id # id} \cup
                               {[week EXCEPT !.is_blocked = is_blocked]}
              ELSE UNCHANGED weeks
           /\ procs' = [procs EXCEPT ![p] =
                  IF left = {} THEN Idle
                  ELSE InPass("loop", procs[p].W, procs[p].T, left)]
    /\ UNCHANGED <<camps, extracted, kids, trips, sessions, bookings,
                   nextWeekUuid, parents, calendar>>

NextTripRace ==
    \/ \E p \in DOMAIN procs, d \in TripFormInputs : TripNewWrite(p, d[1], d[2])
    \/ \E p \in DOMAIN procs, id \in RaceTripIds, d \in TripFormInputs :
          TripUpdateWrite(p, id, d[1], d[2])
    \/ \E p \in DOMAIN procs, id \in RaceTripIds : TripDeleteWrite(p, id)
    \/ \E p \in DOMAIN procs : PassReadWeeks(p)
    \/ \E p \in DOMAIN procs : PassReadTrips(p)
    \/ \E p \in DOMAIN procs : PassLoop(p)

SpecTripRace == Init /\ [][NextTripRace]_vars

\* ------------------------------------------------------------------------
\* C36: when concurrent trip requests, each with its own re-blocking pass,
\* have all run to completion, every Week is flagged exactly when a stored
\* Trip overlaps it
\* ------------------------------------------------------------------------
AllPassesDone == \A p \in DOMAIN procs : procs[p].pc = "idle"

C36_FlagsRightAfterConcurrentPasses ==
    AllPassesDone =>
       \A w \in query_by_user(weeks) :
          w.is_blocked <=> \E t \in query_by_user(trips) : TripOverlapsWeek(t, w)

\* ------------------------------------------------------------------------
\* C37: every stored Session has a positive whole number of weeks as its
\* duration_weeks, so a booking creation that reports success, on the form
\* or on the quick path, has created at least one Booking
\* ------------------------------------------------------------------------
C37_SuccessCreatesABooking ==
    /\ \A s \in query_by_user(sessions) : s.duration_weeks \in Nat \ {0}
    /\ \A k \in KidIds, s \in SessionIdPool, w \in WeekIds :
          /\ \A st \in valid_states :
                (Accepted(booking_new(k, s, w, st).outcome)
                    /\ UuidsLeft(booking_new(k, s, w, st).needed))
                => booking_new_created(k, s, w, st, 0) # {}
          /\ (Accepted(api_quick_booking(k, s, w).outcome)
                 /\ UuidsLeft(api_quick_booking(k, s, w).needed))
             => api_quick_booking_created(k, s, w) # {}

\* ------------------------------------------------------------------------
\* C38: on the form path a Session with both dates is refused, and no
\* Booking is created, when a week of the run ends more than 7 days before
\* the session starts or starts more than 7 days after it ends, and the
\* date refusal is given for no other run; a Session without a start or
\* without an end date gets no date check
\* ------------------------------------------------------------------------
FarFromSession(s, w) ==
    \/ w.end_date < s.session_start_date - 7
    \/ w.start_date > s.session_end_date + 7

C38_WeeksFarFromSessionRejected ==
    \A k \in KidIds, s \in query_by_user(sessions), w \in WeekIds,
       st \in valid_states :
        LET r == booking_new(k, s.id, w, st)
        IN  /\ (/\ s.session_start_date # None /\ s.session_end_date # None
                /\ \E n \in RunWeeks(w, s.duration_weeks) : FarFromSession(s, n))
               => /\ ~Accepted(r.outcome)
                  /\ booking_new_created(k, s.id, w, st, 0) = {}
            /\ r.outcome = "date_range"
               => /\ s.session_start_date # None /\ s.session_end_date # None
                  /\ \E n \in SeqToSet(r.needed) : FarFromSession(s, n)
            /\ (s.session_start_date = None \/ s.session_end_date = None)
               => r.outcome # "date_range"

\* a Session 7..11 of one week: the Week 14..18 is inside the widened range
\* and accepted, the Week 21..25 is refused for its dates
C38_Witness ==
    \E k \in KidIds, s \in query_by_user(sessions), w, v \in WeekIds :
       /\ s.session_start_date # None /\ s.session_end_date # None
       /\ booking_new(k, s.id, w, "idea").outcome = "date_range"
       /\ Accepted(booking_new(k, s.id, v, "idea").outcome)
       /\ GetEntity(weeks, v).start_date > s.session_end_date
       /\ \E b \in bookings : b.session_id = s.id

\* ------------------------------------------------------------------------
\* C39: for every pair of dates with end >= start the two duration
\* calculations agree: calculate_duration_weeks, which counts the weekdays
\* of a Monday-to-Friday span in a loop, returns what the page parser
\* computes in closed form
\* ------------------------------------------------------------------------
ScraperDuration(start_date, end_date) ==
    session_duration([session_start_date |-> DateString(start_date),
                      session_end_date |-> DateString(end_date),
                      duration_weeks |-> Absent]).duration_weeks

C39_DurationCalculationsAgree ==
    /\ \A i \in 1..Len(extracted) :
          (/\ Dated(extracted[i])
           /\ extracted[i].session_end_date[2]
                 >= extracted[i].session_start_date[2])
          => extracted[i].duration_weeks =
                calculate_duration_weeks(extracted[i].session_start_date[2],
                                         extracted[i].session_end_date[2])
    /\ \A s \in query_by_user(sessions) :
          (/\ s.session_start_date # None /\ s.session_end_date # None
           /\ s.session_end_date >= s.session_start_date)
          => s.duration_weeks =
                ScraperDuration(s.session_start_date, s.session_end_date)
    /\ \A start_date, end_date \in 0..MaxSessionDay :
          end_date >= start_date
          => calculate_duration_weeks(start_date, end_date)
                = ScraperDuration(start_date, end_date)

\* two Monday-to-Friday blocks with the weekend between, 12 calendar days:
\* duration 2 from the parser and duration 2 stored by the bulk endpoint
C39_Witness ==
    /\ \E i \in 1..Len(extracted) :
          /\ Dated(extracted[i])
          /\ extracted[i].session_start_date[2] = 0
          /\ extracted[i].session_end_date[2] = 11
          /\ extracted[i].duration_weeks = 2
    /\ \E s \in query_by_user(sessions) :
          /\ s.session_start_date = 0 /\ s.session_end_date = 11
          /\ s.duration_weeks = 2

====
